---- MODULE Spec2Model ----
(***************************************************************************)
(* Model of empress-store: the Store class (src/src/store/store.ts) with   *)
(* its process-wide notification scheduler.                                *)
(*                                                                         *)
(* A store state is a function from a subset of its keys to values (a JS   *)
(* object with own enumerable properties).  User-supplied callbacks        *)
(* (update callbacks, validators, middleware, transactions, listeners) are *)
(* inputs: update callbacks are drawn by their result, validators and      *)
(* middleware from a small family of concrete functions, listeners by what *)
(* they do while they run (return, or call one operation of a store).      *)
(***************************************************************************)
EXTENDS Integers, Sequences, FiniteSets, TLC

\* Largest field value: fields range over 0..MaxVal.
MaxVal == 1

\* Most functions (validators plus middleware) given to one store.
MaxChain == 2

Values == 0 .. MaxVal

Stores == {"a", "b"}

\* The keys of each store's state type T.
KeysOf == [a |-> {"score", "level"}, b |-> {"level"}]

\* The listener callbacks that may be subscribed to each store.
ListenersOf == [a |-> {"l1", "l2"}, b |-> {"l3"}]

EmptyState == [k \in {} |-> 0]

PartialOver(K) == UNION {[D -> Values] : D \in SUBSET K}

\* Partial<T>: what an update callback may return; T with optional fields:
\* what apply, rollback, reset and middleware may produce.
UpdatesOf(s) == PartialOver(KeysOf[s])

StatesOf(s) == PartialOver(KeysOf[s])

\* T with every field present.
TotalStatesOf(s) == [KeysOf[s] -> Values]

InitialState(s) == [k \in KeysOf[s] |-> 0]

VARIABLES
    data,                   \* data[s]: Store._data
    listeners,              \* listeners[s]: Store._listeners, in insertion order
    middleware,             \* middleware[s]: Store._middleware
    validators,             \* validators[s]: Store._validators
    pending,                \* Store._pendingNotifications, in insertion order
    isNotifying,            \* Store._isNotifying
    notificationScheduled,  \* Store._notificationScheduled
    microtasks,             \* delivery passes queued by queueMicrotask, not yet run
    pc,                     \* "turn": synchronous user code; "pass": in the delivery
                            \* pass, between listeners; "listener": inside a listener;
                            \* "acted": inside a listener that has called a store
    si,                     \* delivery pass: index in pending of the store being visited
    li,                     \* delivery pass: index in its listeners of the listener visited
    delivered,              \* history: listener invocations of the running pass
    turnCommit,             \* history: turnCommit[s] = <<state>> committed to s by the
                            \* last operation of the turn, <<>> if none since the last pass
                            \* (for mixed stores: the last call of the turn, at the store
                            \* it was made on; in the previous-state build: the state s
                            \* had before its first commit of the turn)
    firstTouched,           \* history: the stores committed to in the turn, in the order
                            \* of their first commit
    reentered,              \* history: stores committed to by a listener in the running pass
    last,                   \* history: the last public call and its outcome
    getters,                \* getters[c]: the getter given to computed c
    cache,                  \* cache[c]: <<>> for undefined, else <<value>>
    disposed,               \* disposed[c]
    computedStack,          \* the module-level set of computeds being evaluated
    memo,                   \* history: memo[c] = a read of c has returned since c was
                            \* made and since the last notification c received
    updateEntry,            \* updateEntry[s]: what a mixed source store's update
                            \* property holds: "redirect" (the mixer's function),
                            \* "raw" (the fan-out's wrapper of Store.prototype.update)
                            \* or "original" (the value saved at mix time)
    cleanedUp,              \* history: cleanup() has been called on the mixed store
    removers,               \* the functions addMiddleware and addValidator have
                            \* returned, in the order of the calls: the chain and the
                            \* function each closes over, and how often it was called
    prevData                \* prevData[s]: Store._prevData, in the build that has it

sched == <<pending, isNotifying, notificationScheduled, microtasks>>
pass == <<pc, si, li, delivered, reentered>>
computeds == <<getters, cache, disposed, computedStack, memo>>
mixer == <<updateEntry, cleanedUp>>
registry == <<removers>>
previous == <<prevData>>
vars == <<data, listeners, middleware, validators, pending, isNotifying,
          notificationScheduled, microtasks, pc, si, li, delivered, turnCommit,
          firstTouched, reentered, last, getters, cache, disposed, computedStack,
          memo, updateEntry, cleanedUp, removers, prevData>>

----------------------------------------------------------------------------
\* Sets with insertion order (JS Set), as sequences without repetition.

InSet(q, x) == \E i \in 1 .. Len(q) : q[i] = x

SetAdd(q, x) == IF InSet(q, x) THEN q ELSE Append(q, x)

SetDelete(q, x) == SelectSeq(q, LAMBDA y : y # x)

----------------------------------------------------------------------------
\* const applyUpdate = (state, update) => ({ ...state, ...update })
applyUpdate(state, update) ==
    [k \in DOMAIN state \cup DOMAIN update |->
        IF k \in DOMAIN update THEN update[k] ELSE state[k]]

\* An update whose returned fields all equal the current values.
IsNoop(state, upd) == \A k \in DOMAIN upd : k \in DOMAIN state /\ state[k] = upd[k]

----------------------------------------------------------------------------
\* Validators: (update) => true | string.  A result is a record: kind "true",
\* "string" (msg is the returned string), "other" (any other returned value)
\* or "throw" (the validator raised msg).

Validators == {"levelValidator", "scoreValidator", "throwingValidator"}

ValidatorResult(v, update) ==
    CASE v = "levelValidator" ->
            IF "level" \in DOMAIN update /\ update["level"] = 0
            THEN [kind |-> "string", msg |-> "level must be positive"]
            ELSE [kind |-> "true", msg |-> ""]
      [] v = "scoreValidator" ->
            IF "score" \in DOMAIN update /\ update["score"] = MaxVal
            THEN [kind |-> "other", msg |-> ""]
            ELSE [kind |-> "true", msg |-> ""]
      [] v = "throwingValidator" ->
            IF DOMAIN update = {}
            THEN [kind |-> "throw", msg |-> "empty update"]
            ELSE [kind |-> "true", msg |-> ""]

\* Middleware: (state, update, next) => state, next being applyUpdate.  A result
\* is a record: the returned state, or raised = the error the middleware threw.

Middlewares == {"logger", "resetLevel", "throwingMiddleware"}

MiddlewareResult(m, state, update) ==
    CASE m = "logger" ->
            [state |-> applyUpdate(state, update), raised |-> ""]
      [] m = "resetLevel" ->
            [state |-> IF "level" \in DOMAIN state
                       THEN [state EXCEPT !["level"] = 0] ELSE state,
             raised |-> ""]
      [] m = "throwingMiddleware" ->
            IF "level" \in DOMAIN update /\ update["level"] = MaxVal
            THEN [state |-> state, raised |-> "middleware failed"]
            ELSE [state |-> state, raised |-> ""]

----------------------------------------------------------------------------
\* Store.validateUpdate: the validators in order, raising at the first result
\* that is not true.  error = "" when it returns; calls = the validators invoked.

RECURSIVE validateFrom(_, _, _, _)
validateFrom(vs, i, update, calls) ==
    IF i > Len(vs) THEN [error |-> "", calls |-> calls]
    ELSE LET result == ValidatorResult(vs[i], update)
             called == Append(calls, vs[i])
         IN  IF result.kind = "throw" THEN [error |-> result.msg, calls |-> called]
             ELSE IF result.kind # "true"
                  THEN [error |-> IF result.kind = "string" THEN result.msg
                                  ELSE "Validation failed",
                        calls |-> called]
                  ELSE validateFrom(vs, i + 1, update, called)

\* Variant: every validator runs and the last failure is the one raised.
RECURSIVE validateAllFrom(_, _, _, _, _)
validateAllFrom(vs, i, update, calls, error) ==
    IF i > Len(vs) THEN [error |-> error, calls |-> calls]
    ELSE LET result == ValidatorResult(vs[i], update)
         IN  validateAllFrom(vs, i + 1, update, Append(calls, vs[i]),
                             IF result.kind = "true" THEN error
                             ELSE IF result.kind = "other" THEN "Validation failed"
                             ELSE result.msg)

validateUpdate_all(vs, update) == validateAllFrom(vs, 1, update, <<>>, "")

validateUpdate(vs, update) == validateFrom(vs, 1, update, <<>>)

\* The middleware loop of Store.update: finalState = middleware(finalState,
\* update, applyUpdate) for each middleware in order.  calls = the invocations,
\* each with the running state it was given.

RECURSIVE middlewareFrom(_, _, _, _, _)
middlewareFrom(ms, i, finalState, update, calls) ==
    IF i > Len(ms) THEN [state |-> finalState, raised |-> "", calls |-> calls]
    ELSE LET result == MiddlewareResult(ms[i], finalState, update)
             called == Append(calls, [mw |-> ms[i], state |-> finalState, update |-> update])
         IN  IF result.raised # ""
             THEN [state |-> finalState, raised |-> result.raised, calls |-> called]
             ELSE middlewareFrom(ms, i + 1, result.state, update, called)

\* Variant: an update that changes no field does not notify.
update_smart(d, ms, vs, upd) ==
    LET v == validateUpdate(vs, upd)
        m == middlewareFrom(ms, 1, applyUpdate(d, upd), upd, <<>>)
    IN  IF v.error # "" \/ m.raised # ""
        THEN [state |-> d, notified |-> FALSE,
              error |-> IF v.error # "" THEN v.error ELSE m.raised,
              vcalls |-> v.calls, mcalls |-> IF v.error # "" THEN <<>> ELSE m.calls]
        ELSE [state |-> m.state, notified |-> ~IsNoop(d, upd), error |-> "",
              vcalls |-> v.calls, mcalls |-> m.calls]

\* Variant: _data is assigned inside the middleware loop, so a middleware that
\* throws leaves the running state committed.
update_partial(d, ms, vs, upd) ==
    LET v == validateUpdate(vs, upd)
        m == middlewareFrom(ms, 1, applyUpdate(d, upd), upd, <<>>)
    IN  IF v.error # ""
        THEN [state |-> d, notified |-> FALSE, error |-> v.error,
              vcalls |-> v.calls, mcalls |-> <<>>]
        ELSE [state |-> m.state, notified |-> m.raised = "", error |-> m.raised,
              vcalls |-> v.calls, mcalls |-> m.calls]

\* Variant: the middleware chain starts from _data instead of the merged state.
update_unmerged(d, ms, vs, upd) ==
    LET v == validateUpdate(vs, upd)
        m == middlewareFrom(ms, 1, d, upd, <<>>)
    IN  IF v.error # "" \/ m.raised # ""
        THEN [state |-> d, notified |-> FALSE,
              error |-> IF v.error # "" THEN v.error ELSE m.raised,
              vcalls |-> v.calls, mcalls |-> IF v.error # "" THEN <<>> ELSE m.calls]
        ELSE [state |-> m.state, notified |-> TRUE, error |-> "",
              vcalls |-> v.calls, mcalls |-> m.calls]

\* Store.update(callback), update being callback(this.state).  state = _data when
\* the call ends, notified = whether notifyListeners was reached, error = what
\* the call raised ("" when it returned).
update(d, ms, vs, upd) ==
    LET v == validateUpdate(vs, upd)
        m == middlewareFrom(ms, 1, applyUpdate(d, upd), upd, <<>>)
    IN  IF v.error # ""
        THEN [state |-> d, notified |-> FALSE, error |-> v.error,
              vcalls |-> v.calls, mcalls |-> <<>>]
        ELSE IF m.raised # ""
        THEN [state |-> d, notified |-> FALSE, error |-> m.raised,
              vcalls |-> v.calls, mcalls |-> m.calls]
        ELSE [state |-> m.state, notified |-> TRUE, error |-> "",
              vcalls |-> v.calls, mcalls |-> m.calls]

----------------------------------------------------------------------------
\* Transactions: apply and rollback are user functions.  apply is drawn by its
\* outcome (a state, or "raise"); rollback from a family of functions of the
\* pre-transaction state.

Rollbacks == {"keep", "clear"}

RollbackResult(f, state) ==
    CASE f = "keep" -> state
      [] f = "clear" -> EmptyState

\* The error a raising apply throws.
ApplyError == "apply failed"

\* Variant: the catch block rethrows without calling rollback.
transaction_noRollback(d, applied, rollback) ==
    IF applied # <<>>
    THEN [state |-> applied[1], notified |-> TRUE, error |-> "", rcalls |-> <<>>]
    ELSE [state |-> d, notified |-> TRUE, error |-> ApplyError, rcalls |-> <<>>]

\* Variant: rollback is evaluated before apply is known to have failed.
transaction_eagerRollback(d, applied, rollback) ==
    IF applied # <<>>
    THEN [state |-> applied[1], notified |-> TRUE, error |-> "", rcalls |-> <<d>>]
    ELSE [state |-> RollbackResult(rollback, d), notified |-> TRUE,
          error |-> ApplyError, rcalls |-> <<d>>]

\* Store.transaction: d = previousState, the state when the call starts;
\* applied = <<state>> when apply returned state, <<>> when it raised.
\* rcalls = the arguments rollback was called with.
transaction(d, applied, rollback) ==
    IF applied # <<>>
    THEN [state |-> applied[1], notified |-> TRUE, error |-> "", rcalls |-> <<>>]
    ELSE [state |-> RollbackResult(rollback, d), notified |-> TRUE,
          error |-> ApplyError, rcalls |-> <<d>>]

\* Store.simpleTransaction(apply), upd being apply(this.state): a transaction
\* whose apply merges upd into the state (it cannot raise) and whose rollback
\* puts back the values the keys of upd had.
simpleTransaction(d, upd) == transaction(d, <<applyUpdate(d, upd)>>, "keep")

\* Store.reset(initialData = {})
reset(d, initialData) == [state |-> initialData, notified |-> TRUE, error |-> ""]

----------------------------------------------------------------------------
\* The scheduler state as one value, so that notifyListeners is a function of it.

Sched ==
    [pending |-> pending, isNotifying |-> isNotifying,
     notificationScheduled |-> notificationScheduled, microtasks |-> microtasks]

SetSched(n) ==
    /\ pending' = n.pending
    /\ isNotifying' = n.isNotifying
    /\ notificationScheduled' = n.notificationScheduled
    /\ microtasks' = n.microtasks

\* Variant: the pending stores are kept in an array, not a Set.
notifyListeners_array(sch, s) ==
    IF sch.isNotifying
    THEN [sch EXCEPT !.pending = Append(sch.pending, s)]
    ELSE [sch EXCEPT
            !.notificationScheduled = TRUE,
            !.microtasks = IF sch.notificationScheduled THEN @ ELSE @ + 1,
            !.pending = Append(sch.pending, s)]

\* Variant: a store notified again moves to the end of the pending set.
notifyListeners_moveToEnd(sch, s) ==
    IF sch.isNotifying
    THEN [sch EXCEPT !.pending = SetAdd(sch.pending, s)]
    ELSE [sch EXCEPT
            !.notificationScheduled = TRUE,
            !.microtasks = IF sch.notificationScheduled THEN @ ELSE @ + 1,
            !.pending = Append(SetDelete(sch.pending, s), s)]

\* Variant: a call made while a pass is running queues a pass of its own.
notifyListeners_requeue(sch, s) ==
    IF sch.isNotifying
    THEN [sch EXCEPT !.pending = SetAdd(sch.pending, s), !.microtasks = @ + 1]
    ELSE [sch EXCEPT
            !.notificationScheduled = TRUE,
            !.microtasks = IF sch.notificationScheduled THEN @ ELSE @ + 1,
            !.pending = SetAdd(sch.pending, s)]

\* Variant: every call queues a pass, whether or not one is queued already.
notifyListeners_unguarded(sch, s) ==
    IF sch.isNotifying
    THEN [sch EXCEPT !.pending = SetAdd(sch.pending, s)]
    ELSE [sch EXCEPT
            !.notificationScheduled = TRUE,
            !.microtasks = @ + 1,
            !.pending = SetAdd(sch.pending, s)]

\* Store.notifyListeners, up to queueMicrotask: the callback it queues is the
\* delivery pass below.
notifyListeners(sch, s) ==
    IF sch.isNotifying
    THEN [sch EXCEPT !.pending = SetAdd(sch.pending, s)]
    ELSE [sch EXCEPT
            !.notificationScheduled = TRUE,
            !.microtasks = IF sch.notificationScheduled THEN @ ELSE @ + 1,
            !.pending = SetAdd(sch.pending, s)]

----------------------------------------------------------------------------
\* Where the delivery pass continues after position (i, j): the next listener of
\* the store visited, else the first listener of the next pending store that has
\* one, else past the end.  Set.prototype.forEach reads the live set, so stores
\* added to pending while the pass runs are visited too.

RECURSIVE firstFrom(_, _, _)
firstFrom(pend, ls, i) ==
    IF i > Len(pend) THEN <<i, 1>>
    ELSE IF Len(ls[pend[i]]) >= 1 THEN <<i, 1>>
    ELSE firstFrom(pend, ls, i + 1)

nextPosition(pend, ls, i, j) ==
    IF i <= Len(pend) /\ j + 1 <= Len(ls[pend[i]]) THEN <<i, j + 1>>
    ELSE firstFrom(pend, ls, i + 1)

NoCall == [op |-> "none", store |-> "", arg |-> EmptyState, error |-> "",
           vcalls |-> <<>>, mcalls |-> <<>>, before |-> EmptyState,
           applied |-> <<>>, rollback |-> "", rcalls |-> <<>>, path |-> <<>>,
           ref |-> "", runs |-> <<>>, result |-> <<>>]

\* No computed has been made.
NoComputeds ==
    /\ getters = <<>>
    /\ cache = <<>>
    /\ disposed = <<>>
    /\ computedStack = {}
    /\ memo = <<>>

\* No stores have been mixed.
NoMixer ==
    /\ updateEntry = <<>>
    /\ cleanedUp = FALSE

\* addMiddleware and addValidator have not been called.
NoRegistry == removers = <<>>

\* The build without _prevData.
NoPrevious == prevData = <<>>

\* User code may call a store: in a synchronous turn, or inside a listener (one
\* call per listener invocation).
CanCall == pc \in {"turn", "listener"}

\* History of the turn for store s after one more commit of state st: "noop" while
\* every commit of the turn was an update returning only unchanged fields, else
\* "one" for a single commit and "many" for several.
TurnEntry(s, st, call) ==
    [state |-> st,
     kind |-> IF /\ call.op = "update"
                 /\ IsNoop(call.before, call.arg)
                 /\ (turnCommit[s] = <<>> \/ turnCommit[s][1].kind = "noop")
              THEN "noop"
              ELSE IF turnCommit[s] = <<>> THEN "one" ELSE "many"]

\* The effects common to update, transaction and reset: r is the call's result.
Finish(s, r, call) ==
    /\ data' = [data EXCEPT ![s] = r.state]
    /\ SetSched(IF r.notified THEN notifyListeners(Sched, s) ELSE Sched)
    /\ last' = call
    /\ pc' = IF pc = "listener" THEN "acted" ELSE pc
    /\ IF r.notified /\ pc = "turn"
       THEN /\ turnCommit' = [turnCommit EXCEPT ![s] = <<TurnEntry(s, r.state, call)>>]
            /\ firstTouched' = IF \E i \in 1 .. Len(firstTouched) : firstTouched[i] = s
                               THEN firstTouched
                               ELSE firstTouched \o <<s>>
       ELSE UNCHANGED <<turnCommit, firstTouched>>
    /\ IF r.notified /\ pc = "listener"
       THEN reentered' = reentered \cup {s}
       ELSE UNCHANGED reentered
    /\ UNCHANGED <<listeners, middleware, validators, si, li, delivered>>
    /\ UNCHANGED <<computeds, mixer, registry, previous>>

Update(s, upd) ==
    /\ CanCall
    /\ LET r == update(data[s], middleware[s], validators[s], upd)
       IN  Finish(s, r, [NoCall EXCEPT !.op = "update", !.store = s, !.arg = upd,
                                       !.error = r.error, !.vcalls = r.vcalls,
                                       !.mcalls = r.mcalls, !.before = data[s]])

\* Variant: the result of apply is validated as an update is before it is
\* committed, and a rejected result is rolled back.
Transaction_validated(s, applied, rollback) ==
    /\ CanCall
    /\ LET v == IF applied = <<>> THEN [error |-> "", calls |-> <<>>]
                ELSE validateUpdate(validators[s], applied[1])
           r == transaction(data[s], IF v.error = "" THEN applied ELSE <<>>, rollback)
       IN  Finish(s, r, [NoCall EXCEPT !.op = "transaction", !.store = s,
                                       !.error = r.error, !.before = data[s],
                                       !.applied = applied, !.rollback = rollback,
                                       !.vcalls = v.calls, !.rcalls = r.rcalls])

Transaction(s, applied, rollback) ==
    /\ CanCall
    /\ LET r == transaction(data[s], applied, rollback)
       IN  Finish(s, r, [NoCall EXCEPT !.op = "transaction", !.store = s,
                                       !.error = r.error, !.before = data[s],
                                       !.applied = applied, !.rollback = rollback,
                                       !.rcalls = r.rcalls])

\* Variant: reset goes through the pipeline of update, starting from the empty
\* state, so the validators and the middleware run on initialData.
Reset_validated(s, initialData) ==
    /\ CanCall
    /\ LET r == update(EmptyState, middleware[s], validators[s], initialData)
       IN  Finish(s, [state |-> IF r.error = "" THEN r.state ELSE data[s],
                      notified |-> r.notified, error |-> r.error],
                  [NoCall EXCEPT !.op = "reset", !.store = s, !.arg = initialData,
                                 !.error = r.error, !.vcalls = r.vcalls,
                                 !.mcalls = r.mcalls, !.before = data[s]])

Reset(s, initialData) ==
    /\ CanCall
    /\ LET r == reset(data[s], initialData)
       IN  Finish(s, r, [NoCall EXCEPT !.op = "reset", !.store = s,
                                       !.arg = initialData, !.before = data[s]])

SimpleTransaction(s, upd) ==
    /\ CanCall
    /\ LET r == simpleTransaction(data[s], upd)
       IN  Finish(s, r, [NoCall EXCEPT !.op = "simpleTransaction", !.store = s,
                                       !.arg = upd, !.error = r.error,
                                       !.before = data[s], !.rcalls = r.rcalls])

\* Store.validateUpdate(update), called by user code.
ValidateUpdate(s, upd) ==
    /\ pc = "turn"
    /\ LET v == validateUpdate(validators[s], upd)
       IN  last' = [NoCall EXCEPT !.op = "validateUpdate", !.store = s, !.arg = upd,
                                  !.error = v.error, !.vcalls = v.calls,
                                  !.before = data[s]]
    /\ UNCHANGED <<data, listeners, middleware, validators, sched, pass, turnCommit,
                   firstTouched, computeds, mixer, registry, previous>>

\* Store.subscribe(listener)
Subscribe(s, l) ==
    /\ pc = "turn"
    /\ listeners' = [listeners EXCEPT ![s] = SetAdd(@, l)]
    /\ UNCHANGED <<data, middleware, validators, sched, pass, turnCommit, firstTouched,
                   computeds, mixer, registry, previous>>
    /\ last' = NoCall

\* The function subscribe returned.
Unsubscribe(s, l) ==
    /\ pc = "turn"
    /\ InSet(listeners[s], l)
    /\ listeners' = [listeners EXCEPT ![s] = SetDelete(@, l)]
    /\ UNCHANGED <<data, middleware, validators, sched, pass, turnCommit, firstTouched,
                   computeds, mixer, registry, previous>>
    /\ last' = NoCall

\* The microtask queued by notifyListeners starts to run; it runs between two
\* synchronous turns.
StartPass ==
    /\ pc = "turn"
    /\ microtasks > 0
    /\ microtasks' = microtasks - 1
    /\ isNotifying' = TRUE
    /\ pc' = "pass"
    /\ si' = firstFrom(pending, listeners, 1)[1]
    /\ li' = 1
    /\ delivered' = <<>>
    /\ reentered' = {}
    /\ last' = NoCall
    /\ UNCHANGED <<data, listeners, middleware, validators, pending,
                   notificationScheduled, turnCommit, firstTouched, computeds,
                   mixer, registry, previous>>

\* listener(store._data) is called.
Invoke ==
    /\ pc = "pass"
    /\ si <= Len(pending)
    /\ LET s == pending[si]
       IN  delivered' = Append(delivered,
                [store |-> s, listener |-> listeners[s][li], state |-> data[s],
                 fresh |-> s \notin reentered])
    /\ pc' = "listener"
    /\ last' = NoCall
    /\ UNCHANGED <<data, listeners, middleware, validators, sched, si, li,
                   turnCommit, firstTouched, reentered, computeds, mixer, registry, previous>>

\* The listener returns and forEach moves on.
Return ==
    /\ pc \in {"listener", "acted"}
    /\ LET n == nextPosition(pending, listeners, si, li)
       IN  si' = n[1] /\ li' = n[2]
    /\ pc' = "pass"
    /\ last' = NoCall
    /\ UNCHANGED <<data, listeners, middleware, validators, sched, delivered,
                   turnCommit, firstTouched, reentered, computeds, mixer, registry, previous>>

\* The finally block of the delivery pass.
EndPass ==
    /\ pc = "pass"
    /\ si > Len(pending)
    /\ isNotifying' = FALSE
    /\ notificationScheduled' = FALSE
    /\ pending' = <<>>
    /\ pc' = "turn"
    /\ si' = 0
    /\ li' = 0
    /\ delivered' = <<>>
    /\ reentered' = {}
    /\ turnCommit' = [s \in DOMAIN turnCommit |-> <<>>]
    /\ firstTouched' = <<>>
    /\ last' = NoCall
    /\ UNCHANGED <<data, listeners, middleware, validators, microtasks, computeds,
                   mixer, registry, previous>>

Init ==
    /\ data = [s \in Stores |-> InitialState(s)]
    /\ listeners = [s \in Stores |-> <<>>]
    /\ middleware = [s \in Stores |-> <<>>]
    /\ validators = [s \in Stores |-> <<>>]
    /\ pending = <<>>
    /\ isNotifying = FALSE
    /\ notificationScheduled = FALSE
    /\ microtasks = 0
    /\ pc = "turn"
    /\ si = 0
    /\ li = 0
    /\ delivered = <<>>
    /\ turnCommit = [s \in Stores |-> <<>>]
    /\ firstTouched = <<>>
    /\ reentered = {}
    /\ last = NoCall
    /\ NoComputeds
    /\ NoRegistry
    /\ NoPrevious
    /\ NoMixer

\* What user code does in a synchronous turn.
TurnCall ==
    /\ pc = "turn"
    /\ \/ \E s \in Stores : \E upd \in UpdatesOf(s) : Update(s, upd)
       \/ \E s \in Stores : \E st \in TotalStatesOf(s) : Transaction(s, <<st>>, "keep")
       \/ \E s \in Stores : Transaction(s, <<>>, "keep")
       \/ \E s \in Stores : Reset(s, InitialState(s))

\* What a listener does before it returns, if it calls a store at all.
ListenerCall ==
    /\ pc = "listener"
    /\ \/ \E s \in Stores : Update(s, [level |-> MaxVal])
       \/ \E s \in Stores : Transaction(s, <<InitialState(s)>>, "keep")
       \/ \E s \in Stores : Transaction(s, <<>>, "keep")
       \/ \E s \in Stores : Reset(s, InitialState(s))

Next ==
    \/ TurnCall
    \/ ListenerCall
    \/ \E s \in Stores : \E l \in ListenersOf[s] : Subscribe(s, l)
    \/ \E s \in Stores : \E l \in ListenersOf[s] : Unsubscribe(s, l)
    \/ StartPass
    \/ Invoke
    \/ Return
    \/ EndPass

Spec == Init /\ [][Next]_vars

----------------------------------------------------------------------------
\* The update pipeline of one store: validators and middleware are given to the
\* constructor (options.validators, options.middleware).

\* The sequences of at most n distinct elements of S.
SeqsUpTo(S, n) ==
    {q \in UNION {[1 .. k -> S] : k \in 0 .. n} :
        \A i, j \in 1 .. Len(q) : q[i] = q[j] => i = j}

ChainOptions ==
    {o \in [validators : SeqsUpTo(Validators, MaxChain),
            middleware : SeqsUpTo(Middlewares, MaxChain)] :
        Len(o.validators) + Len(o.middleware) <= MaxChain}

InitPipeline ==
    /\ data = [s \in Stores |-> InitialState(s)]
    /\ listeners = [s \in Stores |-> <<>>]
    /\ \E o \in ChainOptions :
          /\ middleware = [s \in Stores |-> IF s = "a" THEN o.middleware ELSE <<>>]
          /\ validators = [s \in Stores |-> IF s = "a" THEN o.validators ELSE <<>>]
    /\ pending = <<>>
    /\ isNotifying = FALSE
    /\ notificationScheduled = FALSE
    /\ microtasks = 0
    /\ pc = "turn"
    /\ si = 0
    /\ li = 0
    /\ delivered = <<>>
    /\ turnCommit = [s \in Stores |-> <<>>]
    /\ firstTouched = <<>>
    /\ reentered = {}
    /\ last = NoCall
    /\ NoComputeds
    /\ NoRegistry
    /\ NoPrevious
    /\ NoMixer

NextPipeline ==
    \/ pc = "turn" /\ \E upd \in UpdatesOf("a") : Update("a", upd)
    \/ \E upd \in UpdatesOf("a") : ValidateUpdate("a", upd)
    \/ pc = "turn" /\ \E st \in {EmptyState, InitialState("a")} : Reset("a", st)
    \/ StartPass
    \/ EndPass

SpecPipeline == InitPipeline /\ [][NextPipeline]_vars

----------------------------------------------------------------------------
\* Transactions with every outcome of apply and every rollback, in turns that
\* also update, and the passes that deliver them.

AppliedOf(s) == {<<>>} \cup {<<st>> : st \in TotalStatesOf(s)}

NextTransaction ==
    \/ pc = "turn" /\ \E s \in Stores : \E applied \in AppliedOf(s) :
          \E rollback \in Rollbacks : Transaction(s, applied, rollback)
    \/ pc = "turn" /\ \E s \in Stores : Update(s, [level |-> MaxVal])
    \/ Subscribe("a", "l1")
    \/ StartPass
    \/ Invoke
    \/ Return
    \/ EndPass

SpecTransaction == Init /\ [][NextTransaction]_vars

----------------------------------------------------------------------------
\* Transactions on a store that has validators and middleware installed, next
\* to the updates the chains do constrain.

NextGuarded ==
    \/ pc = "turn" /\ \E applied \in AppliedOf("a") : \E rollback \in Rollbacks :
          Transaction("a", applied, rollback)
    \/ pc = "turn" /\ \E upd \in UpdatesOf("a") : SimpleTransaction("a", upd)
    \/ pc = "turn" /\ \E upd \in UpdatesOf("a") : Update("a", upd)
    \/ StartPass
    \/ EndPass

SpecGuarded == InitPipeline /\ [][NextGuarded]_vars

----------------------------------------------------------------------------
\* The state accessor: get state() returns new Proxy(this._data, {get, set}).
\* The set trap rejects; the get trap returns new Proxy(value, {}) for a value
\* that is an object, and a proxy with no traps forwards every operation to its
\* target, the object held inside _data.

\* A state with nested objects: level is an object holding a number and an array
\* (an object whose keys are its indices).
NestedState ==
    [score |-> 0, level |-> [x |-> 0, items |-> [i \in {"0"} |-> 0]]]

\* The property paths user code writes through store.state.
Paths == {<<"score">>, <<"level">>, <<"level", "x">>, <<"level", "items", "0">>}

\* obj with the property at path assigned v (obj.p1.p2...pn = v on plain objects).
RECURSIVE Assign(_, _, _)
Assign(obj, path, v) ==
    IF Len(path) = 1 THEN [obj EXCEPT ![path[1]] = v]
    ELSE [obj EXCEPT ![path[1]] = Assign(obj[path[1]], Tail(path), v)]

\* _data after store.state.p1...pn = v: a path of one key meets the set trap of
\* the outer proxy; a longer path is resolved through the trapless proxy the get
\* trap returned for _data.p1, and the assignment reaches the object in _data.
proxySet(d, path, v) ==
    IF Len(path) = 1 THEN d ELSE Assign(d, path, v)

\* User code assigns through the state accessor.
StateWrite(s, path, v) ==
    /\ pc = "turn"
    /\ data' = [data EXCEPT ![s] = proxySet(data[s], path, v)]
    /\ last' = [NoCall EXCEPT !.op = "stateWrite", !.store = s, !.path = path,
                              !.before = data[s]]
    /\ UNCHANGED <<listeners, middleware, validators, sched, pass, turnCommit,
                   firstTouched, computeds, mixer, registry, previous>>

InitProxy ==
    /\ data = [s \in Stores |-> IF s = "a" THEN NestedState ELSE InitialState(s)]
    /\ listeners = [s \in Stores |-> <<>>]
    /\ middleware = [s \in Stores |-> <<>>]
    /\ validators = [s \in Stores |-> <<>>]
    /\ pending = <<>>
    /\ isNotifying = FALSE
    /\ notificationScheduled = FALSE
    /\ microtasks = 0
    /\ pc = "turn"
    /\ si = 0
    /\ li = 0
    /\ delivered = <<>>
    /\ turnCommit = [s \in Stores |-> <<>>]
    /\ firstTouched = <<>>
    /\ reentered = {}
    /\ last = NoCall
    /\ NoComputeds
    /\ NoRegistry
    /\ NoPrevious
    /\ NoMixer

NextProxy ==
    \/ \E path \in Paths : \E v \in Values : StateWrite("a", path, v)
    \/ pc = "turn" /\ \E v \in Values : Update("a", [score |-> v])
    \/ pc = "turn" /\ \E v \in Values : Update("b", [level |-> v])
    \/ Subscribe("a", "l1")
    \/ StartPass
    \/ Invoke
    \/ Return
    \/ EndPass

SpecProxy == InitProxy /\ [][NextProxy]_vars

----------------------------------------------------------------------------
\* computed(storeOrStores, getter).  A getter is drawn from a family of functions
\* of the source states; some read another computed's .value.

Computeds == {"c1", "c2", "c3"}

\* The stores each computed was made over, in the order given.
SourcesOf == [c1 |-> <<"a">>, c2 |-> <<"a", "b">>, c3 |-> <<"b">>]

\* "level": the level of the first source; "missing": a field the state does not
\* have (undefined); "throwing": raises; "next", "first": the value of another
\* computed, read inside the getter.
Getters == {"level", "missing", "throwing", "next", "first"}

NextOf == [c1 |-> "c2", c2 |-> "c3", c3 |-> "c1"]

\* The computed whose .value the getter of c reads, "" if none.
Target(gs, c) ==
    CASE gs[c] = "next" -> NextOf[c]
      [] gs[c] = "first" -> "c1"
      [] OTHER -> ""

DisposedError == "Cannot access disposed computed value"

CircularError == "Circular dependency detected in computed properties"

GetterError == "getter failed"

\* The depth of nested .value reads at which the engine gives up (RangeError).
MaxDepth == 4

StackError == "Maximum call stack size exceeded"

\* The value getter of ref c.  cs0 = [cache, stack, runs, reads]: the caches,
\* computedStack, and the getters run and the .value reads begun so far in the
\* outermost read; d = the stores' states; the answer is cs afterwards, the error
\* raised ("" if none) and the value returned (<<>> for undefined).
RECURSIVE value(_, _, _, _)
RECURSIVE value_noFinally(_, _, _, _)
RECURSIVE value_unchecked(_, _, _, _)

\* getter(getStates()) for ref c: the error it raises or the value it returns,
\* or, in reads, the computed whose .value it reads and returns.
getter(c, d) ==
    CASE getters[c] = "level" ->
            [error |-> "", result |-> <<d[SourcesOf[c][1]]["level"]>>, reads |-> ""]
      [] getters[c] = "missing" -> [error |-> "", result |-> <<>>, reads |-> ""]
      [] getters[c] = "throwing" -> [error |-> GetterError, result |-> <<>>, reads |-> ""]
      [] OTHER -> [error |-> "", result |-> <<>>, reads |-> Target(getters, c)]

\* Variant: computedStack.delete(ref) follows the getter call with no finally.
value_noFinally(c, cs0, d, depth) ==
    LET cs == [cs0 EXCEPT !.reads = Append(@, c)] IN
    IF depth > MaxDepth THEN [cs |-> cs, error |-> StackError, result |-> <<>>]
    ELSE IF disposed[c] THEN [cs |-> cs, error |-> DisposedError, result |-> <<>>]
    ELSE IF c \in cs.stack THEN [cs |-> cs, error |-> CircularError, result |-> <<>>]
    ELSE IF cs.cache[c] = <<>>
    THEN LET entered == [cs EXCEPT !.stack = @ \cup {c}, !.runs = Append(@, c)]
             called == getter(c, d)
             g == IF called.reads # ""
                  THEN value_noFinally(called.reads, entered, d, depth + 1)
                  ELSE [cs |-> entered, error |-> called.error,
                        result |-> called.result]
         IN  IF g.error # ""
             THEN [cs |-> g.cs, error |-> g.error, result |-> <<>>]
             ELSE [cs |-> [g.cs EXCEPT !.stack = @ \ {c}, !.cache[c] = g.result],
                   error |-> "", result |-> g.result]
    ELSE [cs |-> cs, error |-> "", result |-> cs.cache[c]]

\* Variant: no computedStack.has(ref) test.
value_unchecked(c, cs0, d, depth) ==
    LET cs == [cs0 EXCEPT !.reads = Append(@, c)] IN
    IF depth > MaxDepth THEN [cs |-> cs, error |-> StackError, result |-> <<>>]
    ELSE IF disposed[c] THEN [cs |-> cs, error |-> DisposedError, result |-> <<>>]
    ELSE IF cs.cache[c] = <<>>
    THEN LET entered == [cs EXCEPT !.stack = @ \cup {c}, !.runs = Append(@, c)]
             called == getter(c, d)
             g == IF called.reads # ""
                  THEN value_unchecked(called.reads, entered, d, depth + 1)
                  ELSE [cs |-> entered, error |-> called.error,
                        result |-> called.result]
             exited == [g.cs EXCEPT !.stack = @ \ {c}]
         IN  IF g.error # ""
             THEN [cs |-> exited, error |-> g.error, result |-> <<>>]
             ELSE [cs |-> [exited EXCEPT !.cache[c] = g.result],
                   error |-> "", result |-> g.result]
    ELSE [cs |-> cs, error |-> "", result |-> cs.cache[c]]

value(c, cs0, d, depth) ==
    LET cs == [cs0 EXCEPT !.reads = Append(@, c)] IN
    IF depth > MaxDepth THEN [cs |-> cs, error |-> StackError, result |-> <<>>]
    ELSE IF disposed[c] THEN [cs |-> cs, error |-> DisposedError, result |-> <<>>]
    ELSE IF c \in cs.stack THEN [cs |-> cs, error |-> CircularError, result |-> <<>>]
    ELSE IF cs.cache[c] = <<>>
    THEN LET entered == [cs EXCEPT !.stack = @ \cup {c}, !.runs = Append(@, c)]
             called == getter(c, d)
             g == IF called.reads # ""
                  THEN value(called.reads, entered, d, depth + 1)
                  ELSE [cs |-> entered, error |-> called.error,
                        result |-> called.result]
             exited == [g.cs EXCEPT !.stack = @ \ {c}]
         IN  IF g.error # ""
             THEN [cs |-> exited, error |-> g.error, result |-> <<>>]
             ELSE [cs |-> [exited EXCEPT !.cache[c] = g.result],
                   error |-> "", result |-> g.result]
    ELSE [cs |-> cs, error |-> "", result |-> cs.cache[c]]

\* Variant: dispose marks the ref and clears the cache but stays subscribed.
dispose_subscribed(c, ls, dp, ch) ==
    IF dp[c] THEN [listeners |-> ls, disposed |-> dp, cache |-> ch]
    ELSE [listeners |-> ls,
          disposed |-> [dp EXCEPT ![c] = TRUE],
          cache |-> [ch EXCEPT ![c] = <<>>]]

\* ref.dispose(): ls, dp, ch = the listener sets, the disposed flags, the caches.
dispose(c, ls, dp, ch) ==
    IF dp[c] THEN [listeners |-> ls, disposed |-> dp, cache |-> ch]
    ELSE [listeners |-> [s \in DOMAIN ls |-> SetDelete(ls[s], c)],
          disposed |-> [dp EXCEPT ![c] = TRUE],
          cache |-> [ch EXCEPT ![c] = <<>>]]

\* User code reads c.value.
ReadValue(c) ==
    /\ pc = "turn"
    /\ LET r == value(c, [cache |-> cache, stack |-> computedStack, runs |-> <<>>,
                          reads |-> <<>>], data, 1)
       IN  /\ cache' = r.cs.cache
           /\ computedStack' = r.cs.stack
           /\ last' = [NoCall EXCEPT !.op = "read", !.ref = c, !.error = r.error,
                                     !.runs = r.cs.runs, !.result = r.result]
           /\ memo' = [x \in Computeds |->
                          IF r.error = "" /\ InSet(r.cs.reads, x) THEN TRUE ELSE memo[x]]
    /\ UNCHANGED <<data, listeners, middleware, validators, sched, pass, turnCommit,
                   firstTouched, getters, disposed, mixer, registry, previous>>

\* User code calls c.dispose().
Dispose(c) ==
    /\ pc = "turn"
    /\ LET r == dispose(c, listeners, disposed, cache)
       IN  /\ listeners' = r.listeners
           /\ disposed' = r.disposed
           /\ cache' = r.cache
    /\ last' = [NoCall EXCEPT !.op = "dispose", !.ref = c]
    /\ UNCHANGED <<data, middleware, validators, sched, pass, turnCommit,
                   firstTouched, getters, computedStack, memo, mixer, registry, previous>>

\* The listener a computed subscribed to its sources runs: the delivery pass has
\* just called it.
Invalidate ==
    /\ pc = "listener"
    /\ LET c == delivered[Len(delivered)].listener
       IN  /\ cache' = IF disposed[c] THEN cache ELSE [cache EXCEPT ![c] = <<>>]
           /\ memo' = [memo EXCEPT ![c] = FALSE]
    /\ pc' = "acted"
    /\ last' = NoCall
    /\ UNCHANGED <<data, listeners, middleware, validators, sched, si, li, delivered,
                   reentered, turnCommit, firstTouched, getters, disposed,
                   computedStack, mixer, registry, previous>>

\* The configurations of getters the computeds are made with.
GetterConfig(g1, g2, g3) == [c1 |-> g1, c2 |-> g2, c3 |-> g3]

GetterConfigs ==
    {GetterConfig("level", "level", "level"),
     GetterConfig("missing", "level", "level"),
     GetterConfig("next", "level", "level"),
     GetterConfig("next", "throwing", "level"),
     GetterConfig("next", "missing", "level"),
     GetterConfig("first", "level", "level"),
     GetterConfig("next", "first", "level"),
     GetterConfig("next", "next", "first"),
     GetterConfig("level", "next", "next")}

\* The computeds c1, c2, c3 have been made, in this order, over stores with no
\* other listener.
InitComputed ==
    /\ data = [s \in Stores |-> InitialState(s)]
    /\ listeners = [s \in Stores |->
          SelectSeq(<<"c1", "c2", "c3">>,
                    LAMBDA c : \E i \in 1 .. Len(SourcesOf[c]) : SourcesOf[c][i] = s)]
    /\ middleware = [s \in Stores |-> <<>>]
    /\ validators = [s \in Stores |-> <<>>]
    /\ pending = <<>>
    /\ isNotifying = FALSE
    /\ notificationScheduled = FALSE
    /\ microtasks = 0
    /\ pc = "turn"
    /\ si = 0
    /\ li = 0
    /\ delivered = <<>>
    /\ turnCommit = [s \in Stores |-> <<>>]
    /\ firstTouched = <<>>
    /\ reentered = {}
    /\ last = NoCall
    /\ getters \in GetterConfigs
    /\ cache = [c \in Computeds |-> <<>>]
    /\ disposed = [c \in Computeds |-> FALSE]
    /\ computedStack = {}
    /\ memo = [c \in Computeds |-> FALSE]
    /\ NoRegistry
    /\ NoPrevious
    /\ NoMixer

NextComputed ==
    \/ \E c \in Computeds : ReadValue(c)
    \/ \E c \in Computeds : Dispose(c)
    \/ pc = "turn" /\ \E v \in Values : Update("a", [level |-> v])
    \/ pc = "turn" /\ Update("b", [level |-> MaxVal])
    \/ StartPass
    \/ Invoke
    \/ Invalidate
    \/ pc = "acted" /\ Return
    \/ EndPass

SpecComputed == InitComputed /\ [][NextComputed]_vars

----------------------------------------------------------------------------
\* mixStores(stores, options): the mixed store is a Store of its own, named Mixed;
\* Sources is the stores array.

Mixed == "m"

Sources == <<"a", "b">>

AllStores == Stores \cup {Mixed}

\* The keys of the source stores that are mixed: level is shared.
MixKeysOf == [a |-> {"score", "level"}, b |-> {"level", "bonus"}]

\* The values the fields of mixed stores take: the least and the greatest.
MixValues == {0, MaxVal}

\* What an update callback given to the mixed store or to a source may return:
\* values for some of the keys K.
MixUpdatesOver(K) == UNION {[D -> MixValues] : D \in SUBSET K}

MixedUpdates == MixUpdatesOver({"score", "level", "bonus"})

\* Variant: the fold keeps the value of the first store that has a key.
RECURSIVE initialStateFrom_firstWins(_, _, _)
initialStateFrom_firstWins(D, i, acc) ==
    IF i > Len(Sources) THEN acc
    ELSE initialStateFrom_firstWins(D, i + 1, applyUpdate(D[Sources[i]], acc))

\* stores.reduce((acc, store) => ({ ...acc, ...store.state }), {})
RECURSIVE initialStateFrom(_, _, _)
initialStateFrom(D, i, acc) ==
    IF i > Len(Sources) THEN acc
    ELSE initialStateFrom(D, i + 1, applyUpdate(acc, D[Sources[i]]))

initialState(D) == initialStateFrom(D, 1, EmptyState)

\* Variant: the delta gives every key of the source a value, the least one to
\* the keys the update does not have.
storeUpdate_everyKey(st, upd) ==
    [k \in {x \in DOMAIN st : x \notin DOMAIN upd \/ st[x] # upd[x]} |->
        IF k \in DOMAIN upd THEN upd[k] ELSE 0]

\* The delta of one source: the keys of update that the source's state has with
\* another value (key in store.state && store.state[key] !== update[key]).
storeUpdate(st, upd) ==
    [k \in {x \in DOMAIN upd : x \in DOMAIN st /\ st[x] # upd[x]} |-> upd[k]]

\* Variant: the first loop validates the delta of every source, empty or not.
RECURSIVE preflight_everySource(_, _, _, _, _)
preflight_everySource(D, vs, i, upd, calls) ==
    IF i > Len(Sources) THEN [error |-> "", calls |-> calls]
    ELSE LET s == Sources[i]
             delta == storeUpdate(D[s], upd)
             v == validateUpdate(vs[s], delta)
             called == Append(calls, [store |-> s, update |-> delta,
                                      validators |-> v.calls])
         IN  IF v.error # "" THEN [error |-> v.error, calls |-> called]
             ELSE preflight_everySource(D, vs, i + 1, upd, called)

\* The first loop of MixedStore.update: each source with a non-empty delta
\* validates it.  calls = the validateUpdate calls made, each with the
\* validators it invoked.
RECURSIVE preflight(_, _, _, _, _)
preflight(D, vs, i, upd, calls) ==
    IF i > Len(Sources) THEN [error |-> "", calls |-> calls]
    ELSE LET s == Sources[i]
             delta == storeUpdate(D[s], upd)
             v == validateUpdate(vs[s], delta)
             called == Append(calls, [store |-> s, update |-> delta,
                                      validators |-> v.calls])
         IN  IF DOMAIN delta = {} THEN preflight(D, vs, i + 1, upd, calls)
             ELSE IF v.error # "" THEN [error |-> v.error, calls |-> called]
             ELSE preflight(D, vs, i + 1, upd, called)

\* store.update(callback) on a source, defined below: the fan-out calls it.
RECURSIVE sourceUpdate(_, _, _, _, _)

\* Variant: the second loop writes to every source, whether or not the source
\* has a key of the update with another value.
RECURSIVE fanOut_everySource(_, _, _, _, _)
fanOut_everySource(sys, ms, vs, i, upd) ==
    IF i > Len(Sources) THEN [sys |-> sys, error |-> ""]
    ELSE LET s == Sources[i]
             delta == storeUpdate(sys.data[s], upd)
             originalUpdate == sys.updateEntry[s]
             wrapped == [sys EXCEPT !.updateEntry[s] = "raw"]
             r == sourceUpdate([wrapped EXCEPT !.calls =
                                   Append(@, [store |-> s, update |-> delta,
                                              entry |-> wrapped.updateEntry[s]])],
                               ms, vs, s, delta)
         IN  IF r.error # "" THEN r
             ELSE fanOut_everySource([r.sys EXCEPT !.updateEntry[s] = originalUpdate],
                                     ms, vs, i + 1, upd)

\* Variant: the second loop calls store.update without putting the raw wrapper
\* in it first.
RECURSIVE fanOut_noBypass(_, _, _, _, _)
fanOut_noBypass(sys, ms, vs, i, upd) ==
    IF i > Len(Sources) THEN [sys |-> sys, error |-> ""]
    ELSE LET s == Sources[i]
             delta == storeUpdate(sys.data[s], upd)
             r == sourceUpdate([sys EXCEPT !.calls =
                                   Append(@, [store |-> s, update |-> delta,
                                              entry |-> sys.updateEntry[s]])],
                               ms, vs, s, delta)
         IN  IF DOMAIN delta = {} THEN fanOut_noBypass(sys, ms, vs, i + 1, upd)
             ELSE IF r.error # "" THEN r
             ELSE fanOut_noBypass(r.sys, ms, vs, i + 1, upd)

\* The second loop of MixedStore.update.  sys = [data, sched, updateEntry, calls,
\* validated, runs, depth]: the stores' states, the scheduler, the sources' update
\* properties, the store.update calls the fan-out has made (each with what the
\* property held when it was called), the validateUpdate calls made, the updates
\* MixedStore.update has run with, and the MixedStore.update frames on the call
\* stack.  For a source with a non-empty delta: store.update is set to the raw
\* wrapper, called, and set back; the call raising leaves the wrapper there.
RECURSIVE fanOut(_, _, _, _, _)
fanOut(sys, ms, vs, i, upd) ==
    IF i > Len(Sources) THEN [sys |-> sys, error |-> ""]
    ELSE LET s == Sources[i]
             delta == storeUpdate(sys.data[s], upd)
             originalUpdate == sys.updateEntry[s]
             wrapped == [sys EXCEPT !.updateEntry[s] = "raw"]
             r == sourceUpdate([wrapped EXCEPT !.calls =
                                   Append(@, [store |-> s, update |-> delta,
                                              entry |-> wrapped.updateEntry[s]])],
                               ms, vs, s, delta)
         IN  IF DOMAIN delta = {} THEN fanOut(sys, ms, vs, i + 1, upd)
             ELSE IF r.error # "" THEN r
             ELSE fanOut([r.sys EXCEPT !.updateEntry[s] = originalUpdate],
                         ms, vs, i + 1, upd)

\* Variant: no pre-flight loop; each source validates when it is written.
mixedUpdate_noPreflight(sys, ms, vs, upd) ==
    LET r == update(sys.data[Mixed], ms[Mixed], vs[Mixed], upd)
    IN  IF r.error # "" THEN [sys |-> sys, error |-> r.error]
        ELSE fanOut([sys EXCEPT !.data[Mixed] = r.state,
                                !.sched = notifyListeners(@, Mixed)],
                    ms, vs, 1, upd)

\* Variant: the mixed store commits and writes to no source.
mixedUpdate_noFanOut(sys, ms, vs, upd) ==
    LET v == validateUpdate(vs[Mixed], upd)
        p == preflight(sys.data, vs, 1, upd, <<>>)
        r == update(sys.data[Mixed], ms[Mixed], vs[Mixed], upd)
    IN  IF v.error # "" THEN [sys |-> sys, error |-> v.error]
        ELSE IF p.error # "" THEN [sys |-> sys, error |-> p.error]
        ELSE IF r.error # "" THEN [sys |-> sys, error |-> r.error]
        ELSE [sys |-> [sys EXCEPT !.data[Mixed] = r.state,
                                  !.sched = notifyListeners(@, Mixed)],
              error |-> ""]

\* The body of MixedStore.update(callback), upd being callback(this.state).
mixedUpdateBody(sys, ms, vs, upd) ==
    LET v == validateUpdate(vs[Mixed], upd)
        p == preflight(sys.data, vs, 1, upd, <<>>)
        r == update(sys.data[Mixed], ms[Mixed], vs[Mixed], upd)
        entered == [sys EXCEPT !.validated =
                       Append(@, [store |-> Mixed, update |-> upd, validators |-> v.calls])]
        checked == [entered EXCEPT !.validated = @ \o p.calls]
        updated == [checked EXCEPT !.validated =
                       Append(@, [store |-> Mixed, update |-> upd, validators |-> r.vcalls])]
    IN  IF v.error # "" THEN [sys |-> entered, error |-> v.error]
        ELSE IF p.error # "" THEN [sys |-> checked, error |-> p.error]
        ELSE IF r.error # "" THEN [sys |-> updated, error |-> r.error]
        ELSE fanOut([updated EXCEPT !.data[Mixed] = r.state,
                                    !.sched = notifyListeners(@, Mixed)],
                    ms, vs, 1, upd)

\* MixedStore.update(callback) as a call: a frame on the call stack while its
\* body runs; the engine raises when the stack is exhausted.
mixedUpdate(sys, ms, vs, upd) ==
    IF sys.depth >= MaxDepth THEN [sys |-> sys, error |-> StackError]
    ELSE LET r == mixedUpdateBody([sys EXCEPT !.depth = @ + 1,
                                              !.runs = Append(@, upd)],
                                  ms, vs, upd)
         IN  [r EXCEPT !.sys.depth = @ - 1]

\* Variant: the function put in store.update validates and writes to the source
\* itself, and the mixed store is not called.
redirect_local(sys, ms, vs, s, upd) ==
    LET r == update(sys.data[s], ms[s], vs[s], upd)
    IN  IF r.error # "" THEN [sys |-> sys, error |-> r.error]
        ELSE [sys |-> [sys EXCEPT !.data[s] = r.state,
                                  !.sched = notifyListeners(@, s)],
              error |-> ""]

\* The function mixStores puts in store.update: validate with the source's own
\* validators, then hand the update to the mixed store.
redirect(sys, ms, vs, s, upd) ==
    LET v == validateUpdate(vs[s], upd)
        entered == [sys EXCEPT !.validated =
                       Append(@, [store |-> s, update |-> upd, validators |-> v.calls])]
    IN  IF v.error # "" THEN [sys |-> entered, error |-> v.error]
        ELSE mixedUpdate(entered, ms, vs, upd)

\* store.update(callback) on a source: whatever its update property holds, the
\* mixer's function or Store.prototype.update.
sourceUpdate(sys, ms, vs, s, upd) ==
    IF sys.updateEntry[s] = "redirect" THEN redirect(sys, ms, vs, s, upd)
    ELSE LET r == update(sys.data[s], ms[s], vs[s], upd)
             entered == [sys EXCEPT !.validated =
                            Append(@, [store |-> s, update |-> upd, validators |-> r.vcalls])]
         IN  IF r.error # "" THEN [sys |-> entered, error |-> r.error]
             ELSE [sys |-> [entered EXCEPT !.data[s] = r.state,
                                           !.sched = notifyListeners(@, s)],
                   error |-> ""]

Sys ==
    [data |-> data, sched |-> Sched, updateEntry |-> updateEntry, calls |-> <<>>,
     validated |-> <<>>, runs |-> <<>>, depth |-> 0]

\* The effects of an update call on the mixed store or on a source.
FinishMixed(r, call) ==
    /\ data' = r.sys.data
    /\ SetSched(r.sys.sched)
    /\ updateEntry' = r.sys.updateEntry
    /\ last' = [call EXCEPT !.error = r.error, !.mcalls = r.sys.calls,
                            !.vcalls = r.sys.validated, !.runs = r.sys.runs]
    /\ UNCHANGED <<listeners, middleware, validators, pass, turnCommit, firstTouched,
                   computeds, cleanedUp, registry, previous>>

MixedUpdate(upd) ==
    /\ pc = "turn"
    /\ FinishMixed(mixedUpdate(Sys, middleware, validators, upd),
                   [NoCall EXCEPT !.op = "mixedUpdate", !.store = Mixed, !.arg = upd,
                                  !.before = data[Mixed]])

SourceUpdate(s, upd) ==
    /\ pc = "turn"
    /\ FinishMixed(sourceUpdate(Sys, middleware, validators, s, upd),
                   [NoCall EXCEPT !.op = "sourceUpdate", !.store = s, !.arg = upd,
                                  !.before = data[s]])

\* Variant: cleanup() leaves the redirecting functions in the sources.
Cleanup_keepsRedirect ==
    /\ pc = "turn"
    /\ cleanedUp' = TRUE
    /\ last' = [NoCall EXCEPT !.op = "cleanup", !.store = Mixed]
    /\ UNCHANGED <<data, listeners, middleware, validators, sched, pass, turnCommit,
                   firstTouched, computeds, updateEntry, registry, previous>>

\* mixed.cleanup(): every source gets back the update it had at mix time.
Cleanup ==
    /\ pc = "turn"
    /\ updateEntry' = [s \in DOMAIN updateEntry |-> "original"]
    /\ cleanedUp' = TRUE
    /\ last' = [NoCall EXCEPT !.op = "cleanup", !.store = Mixed]
    /\ UNCHANGED <<data, listeners, middleware, validators, sched, pass, turnCommit,
                   firstTouched, computeds, registry, previous>>

\* The validators and middleware the stores are made with.
MixChains ==
    [va : {<<>>}, vb : {<<>>, <<"levelValidator">>},
     mb : {<<>>, <<"throwingMiddleware">>}]

\* The states the sources have when they are mixed: they agree on level, or not.
MixInitialStates ==
    {[a |-> [k \in MixKeysOf["a"] |-> 0],
      b |-> [k \in MixKeysOf["b"] |-> IF k = "level" THEN v ELSE 0]] :
        v \in {0, MaxVal}}

\* The sources have been made and mixed.
InitMix ==
    /\ \E D \in MixInitialStates :
          data = [s \in AllStores |-> IF s = Mixed THEN initialState(D) ELSE D[s]]
    /\ \E o \in MixChains :
          /\ validators = [s \in AllStores |->
                IF s = "a" THEN o.va ELSE IF s = "b" THEN o.vb ELSE <<>>]
          /\ middleware = [s \in AllStores |-> IF s = "b" THEN o.mb ELSE <<>>]
    /\ listeners = [s \in AllStores |-> <<>>]
    /\ pending = <<>>
    /\ isNotifying = FALSE
    /\ notificationScheduled = FALSE
    /\ microtasks = 0
    /\ pc = "turn"
    /\ si = 0
    /\ li = 0
    /\ delivered = <<>>
    /\ turnCommit = [s \in AllStores |-> <<>>]
    /\ firstTouched = <<>>
    /\ reentered = {}
    /\ last = NoCall
    /\ NoComputeds
    /\ NoRegistry
    /\ NoPrevious
    /\ updateEntry = [s \in Stores |-> "redirect"]
    /\ cleanedUp = FALSE

\* User code has taken the outcome of its last call and goes on.
Continue ==
    /\ pc = "turn"
    /\ last # NoCall
    /\ last' = NoCall
    /\ UNCHANGED <<data, listeners, middleware, validators, sched, pass, turnCommit,
                   firstTouched, computeds, mixer, registry, previous>>

NextMix ==
    \/ last = NoCall /\ \E upd \in MixedUpdates : MixedUpdate(upd)
    \/ last = NoCall /\ \E s \in Stores : \E upd \in MixUpdatesOver(MixKeysOf[s]) :
          SourceUpdate(s, upd)
    \/ last = NoCall /\ Cleanup
    \/ Continue
    \/ StartPass
    \/ EndPass

SpecMix == InitMix /\ [][NextMix]_vars

----------------------------------------------------------------------------
\* Listeners that raise.  Nothing in the delivery pass catches: the exception
\* leaves both forEach loops, the finally block runs, and the microtask ends.

\* Variant: the flags and the pending set are reset after the loops, with no
\* finally, so a raising listener leaves them as they are.
Raise_noFinally ==
    /\ pc = "listener"
    /\ pc' = "turn"
    /\ si' = 0
    /\ li' = 0
    /\ delivered' = <<>>
    /\ reentered' = {}
    /\ turnCommit' = [s \in DOMAIN turnCommit |-> <<>>]
    /\ firstTouched' = <<>>
    /\ last' = [NoCall EXCEPT !.op = "raise", !.store = pending[si]]
    /\ UNCHANGED <<data, listeners, middleware, validators, sched, computeds,
                   mixer, registry, previous>>

\* The listener being run raises: the listeners and stores not yet visited are
\* skipped and the finally block of the delivery pass runs.
Raise ==
    /\ pc = "listener"
    /\ isNotifying' = FALSE
    /\ notificationScheduled' = FALSE
    /\ pending' = <<>>
    /\ pc' = "turn"
    /\ si' = 0
    /\ li' = 0
    /\ delivered' = <<>>
    /\ reentered' = {}
    /\ turnCommit' = [s \in DOMAIN turnCommit |-> <<>>]
    /\ firstTouched' = <<>>
    /\ last' = [NoCall EXCEPT !.op = "raise", !.store = pending[si]]
    /\ UNCHANGED <<data, listeners, middleware, validators, microtasks, computeds,
                   mixer, registry, previous>>

NextRaise ==
    \/ pc = "turn" /\ \E s \in Stores : \E upd \in UpdatesOf(s) : Update(s, upd)
    \/ \E s \in Stores : \E l \in ListenersOf[s] : Subscribe(s, l)
    \/ StartPass
    \/ Invoke
    \/ Return
    \/ Raise
    \/ EndPass

SpecRaise == Init /\ [][NextRaise]_vars

----------------------------------------------------------------------------
\* addMiddleware, addValidator and the removers they return.

\* Most calls of addMiddleware and addValidator together.
MaxRegistrations == 3

\* Most calls of one remover.
MaxRemoverCalls == 2

\* The functions given to addMiddleware and to addValidator.
Registered == [middleware |-> {"logger", "resetLevel"}, validators |-> {"levelValidator"}]

\* Array.prototype.indexOf: the first index holding x, 0 standing for -1.
indexOf(q, x) ==
    IF \E i \in 1 .. Len(q) : q[i] = x
    THEN CHOOSE i \in 1 .. Len(q) : q[i] = x /\ \A j \in 1 .. i - 1 : q[j] # x
    ELSE 0

\* q.splice(index, 1)
splice(q, index) == SubSeq(q, 1, index - 1) \o SubSeq(q, index + 1, Len(q))

\* The body of the function addMiddleware or addValidator returns, on chain q
\* with fn the function the call was given.
remover(q, fn) ==
    LET index == indexOf(q, fn)
    IN  IF index # 0 THEN splice(q, index) ELSE q

\* Store.addMiddleware(middleware)
AddMiddleware(s, m) ==
    /\ pc = "turn"
    /\ Len(removers) < MaxRegistrations
    /\ middleware' = [middleware EXCEPT ![s] = Append(@, m)]
    /\ removers' = Append(removers,
                          [chain |-> "middleware", store |-> s, fn |-> m, calls |-> 0])
    /\ last' = [NoCall EXCEPT !.op = "addMiddleware", !.store = s]
    /\ UNCHANGED <<data, listeners, validators, sched, pass, turnCommit, firstTouched,
                   computeds, mixer, previous>>

\* Store.addValidator(validator)
AddValidator(s, v) ==
    /\ pc = "turn"
    /\ Len(removers) < MaxRegistrations
    /\ validators' = [validators EXCEPT ![s] = Append(@, v)]
    /\ removers' = Append(removers,
                          [chain |-> "validators", store |-> s, fn |-> v, calls |-> 0])
    /\ last' = [NoCall EXCEPT !.op = "addValidator", !.store = s]
    /\ UNCHANGED <<data, listeners, middleware, sched, pass, turnCommit, firstTouched,
                   computeds, mixer, previous>>

\* The i-th function returned by addMiddleware or addValidator is called.
Remove(i) ==
    /\ pc = "turn"
    /\ removers[i].calls < MaxRemoverCalls
    /\ LET r == removers[i]
       IN  /\ IF r.chain = "middleware"
              THEN /\ middleware' = [middleware EXCEPT ![r.store] = remover(@, r.fn)]
                   /\ UNCHANGED validators
              ELSE /\ validators' = [validators EXCEPT ![r.store] = remover(@, r.fn)]
                   /\ UNCHANGED middleware
           /\ last' = [NoCall EXCEPT !.op = "remove", !.store = r.store]
    /\ removers' = [removers EXCEPT ![i].calls = @ + 1]
    /\ UNCHANGED <<data, listeners, sched, pass, turnCommit, firstTouched, computeds,
                   mixer, previous>>

NextRegistry ==
    \/ \E m \in Registered.middleware : AddMiddleware("a", m)
    \/ \E v \in Registered.validators : AddValidator("a", v)
    \/ \E i \in 1 .. Len(removers) : Remove(i)

SpecRegistry == Init /\ [][NextRegistry]_vars

----------------------------------------------------------------------------
\* The build that keeps the previous state (src/dist/index.js): every commit
\* first copies _data to _prevData, and listeners get both.

\* Store.update of that build.  History: turnCommit[s] holds the state s had
\* before its first commit since the last delivery pass.
UpdatePrev(s, upd) ==
    /\ pc = "turn"
    /\ LET r == update(data[s], middleware[s], validators[s], upd)
       IN  /\ r.error = ""
           /\ prevData' = [prevData EXCEPT ![s] = data[s]]
           /\ data' = [data EXCEPT ![s] = r.state]
           /\ SetSched(notifyListeners(Sched, s))
    /\ turnCommit' = [turnCommit EXCEPT ![s] =
            IF @ = <<>> THEN <<[before |-> data[s]]>> ELSE @]
    /\ last' = NoCall
    /\ UNCHANGED <<listeners, middleware, validators, pass, firstTouched, computeds,
                   mixer, registry>>

\* Store.reset of that build.
ResetPrev(s, initialData) ==
    /\ pc = "turn"
    /\ prevData' = [prevData EXCEPT ![s] = data[s]]
    /\ data' = [data EXCEPT ![s] = reset(data[s], initialData).state]
    /\ SetSched(notifyListeners(Sched, s))
    /\ turnCommit' = [turnCommit EXCEPT ![s] =
            IF @ = <<>> THEN <<[before |-> data[s]]>> ELSE @]
    /\ last' = NoCall
    /\ UNCHANGED <<listeners, middleware, validators, pass, firstTouched, computeds,
                   mixer, registry>>

\* a(e._data, e._prevData): the listener is called with both states.
InvokePrev ==
    /\ pc = "pass"
    /\ si <= Len(pending)
    /\ LET s == pending[si]
       IN  delivered' = Append(delivered,
                [store |-> s, listener |-> listeners[s][li], state |-> data[s],
                 prev |-> prevData[s]])
    /\ pc' = "listener"
    /\ last' = NoCall
    /\ UNCHANGED <<data, listeners, middleware, validators, sched, si, li,
                   turnCommit, firstTouched, reentered, computeds, mixer, registry,
                   previous>>

\* The stores have been made by that build and a listener has subscribed to each.
InitPrev ==
    /\ data = [s \in Stores |-> InitialState(s)]
    /\ prevData = [s \in Stores |-> InitialState(s)]
    /\ listeners = [s \in Stores |-> IF s = "a" THEN <<"l1">> ELSE <<"l3">>]
    /\ middleware = [s \in Stores |-> <<>>]
    /\ validators = [s \in Stores |-> <<>>]
    /\ pending = <<>>
    /\ isNotifying = FALSE
    /\ notificationScheduled = FALSE
    /\ microtasks = 0
    /\ pc = "turn"
    /\ si = 0
    /\ li = 0
    /\ delivered = <<>>
    /\ turnCommit = [s \in Stores |-> <<>>]
    /\ firstTouched = <<>>
    /\ reentered = {}
    /\ last = NoCall
    /\ getters = <<>>
    /\ cache = <<>>
    /\ disposed = <<>>
    /\ computedStack = {}
    /\ memo = <<>>
    /\ NoMixer
    /\ removers = <<>>

NextPrev ==
    \/ \E s \in Stores : \E upd \in UpdatesOf(s) : UpdatePrev(s, upd)
    \/ \E s \in Stores : ResetPrev(s, InitialState(s))
    \/ StartPass
    \/ InvokePrev
    \/ Return
    \/ EndPass

SpecPrev == InitPrev /\ [][NextPrev]_vars

----------------------------------------------------------------------------
\* mixStores itself: the source stores exist, with any states, and are mixed.

\* The source stores have been made; there is no mixed store yet.
InitSources ==
    /\ data \in [a : PartialOver(MixKeysOf["a"]), b : PartialOver(MixKeysOf["b"])]
    /\ listeners = [s \in Stores |-> <<>>]
    /\ middleware = [s \in Stores |-> <<>>]
    /\ validators = [s \in Stores |-> <<>>]
    /\ pending = <<>>
    /\ isNotifying = FALSE
    /\ notificationScheduled = FALSE
    /\ microtasks = 0
    /\ pc = "turn"
    /\ si = 0
    /\ li = 0
    /\ delivered = <<>>
    /\ turnCommit = [s \in Stores |-> <<>>]
    /\ firstTouched = <<>>
    /\ reentered = {}
    /\ last = NoCall
    /\ NoComputeds
    /\ NoRegistry
    /\ NoPrevious
    /\ updateEntry = [s \in Stores |-> "original"]
    /\ cleanedUp = FALSE

\* mixStores(stores): the mixed store is made with the folded state and no
\* middleware or validators, and every source gets the redirect as its update.
MixStores ==
    /\ pc = "turn"
    /\ Mixed \notin DOMAIN data
    /\ data' = [s \in AllStores |-> IF s = Mixed THEN initialState(data) ELSE data[s]]
    /\ listeners' = [s \in AllStores |-> IF s = Mixed THEN <<>> ELSE listeners[s]]
    /\ middleware' = [s \in AllStores |-> IF s = Mixed THEN <<>> ELSE middleware[s]]
    /\ validators' = [s \in AllStores |-> IF s = Mixed THEN <<>> ELSE validators[s]]
    /\ turnCommit' = [s \in AllStores |-> IF s = Mixed THEN <<>> ELSE turnCommit[s]]
    /\ updateEntry' = [s \in Stores |-> "redirect"]
    /\ last' = [NoCall EXCEPT !.op = "mixStores", !.store = Mixed]
    /\ UNCHANGED <<sched, pass, firstTouched, computeds, cleanedUp, registry, previous>>

NextMixStores == MixStores

SpecMixStores == InitSources /\ [][NextMixStores]_vars

----------------------------------------------------------------------------
\* Mixed stores called through transaction, simpleTransaction and reset: mixStores
\* replaces the update property of the sources and nothing else, so these are
\* the methods of Store, on the sources and on the mixed store.

AllMixKeysOf(s) == IF s = Mixed THEN {"score", "level", "bonus"} ELSE MixKeysOf[s]

\* The state with every key of store s at the greatest value.
Topped(s) == [k \in AllMixKeysOf(s) |-> MaxVal]

\* One call in a synchronous turn, then the delivery pass.
NextMixCommit ==
    \/ last = NoCall /\ pending = <<>> /\ pc = "turn" /\ \E s \in AllStores :
          \E st \in {EmptyState, Topped(s)} : Reset(s, st)
    \/ last = NoCall /\ pending = <<>> /\ pc = "turn" /\ \E s \in AllStores :
          \E applied \in {<<>>, <<Topped(s)>>} : Transaction(s, applied, "keep")
    \/ last = NoCall /\ pending = <<>> /\ pc = "turn" /\ \E s \in AllStores :
          \E upd \in MixUpdatesOver({"level"}) : SimpleTransaction(s, upd)
    \/ Continue
    \/ StartPass
    \/ EndPass

SpecMixCommit == InitMix /\ [][NextMixCommit]_vars

----------------------------------------------------------------------------
\* Mixed stores whose sources are given updates with any keys, keys their state
\* does not have included.

NextMixAnyKey ==
    \/ last = NoCall /\ \E s \in Stores : \E upd \in MixedUpdates : SourceUpdate(s, upd)
    \/ Continue
    \/ StartPass
    \/ EndPass

SpecMixAnyKey == InitMix /\ [][NextMixAnyKey]_vars

----------------------------------------------------------------------------
\* Mixed stores with listeners: a synchronous turn makes update calls until one of
\* them has notified a store, then the delivery pass runs.

\* The listeners subscribed to the mixed store and to its sources.
MixListeners ==
    {[m |-> <<"l1", "l2">>, a |-> <<"l1">>, b |-> <<"l1">>],
     [m |-> <<"l1">>, a |-> <<>>, b |-> <<"l1", "l2">>],
     [m |-> <<>>, a |-> <<"l1">>, b |-> <<>>]}

\* The effects of an update call on mixed stores.  History: turnCommit holds the
\* last call of the turn, at the store it was made on, with the states all stores
\* had and the function the store's update property held when it was made.
FinishNotified(r, call, entry) ==
    /\ data' = r.sys.data
    /\ SetSched(r.sys.sched)
    /\ updateEntry' = r.sys.updateEntry
    /\ last' = [call EXCEPT !.error = r.error, !.mcalls = r.sys.calls,
                            !.vcalls = r.sys.validated, !.runs = r.sys.runs]
    /\ turnCommit' = [s \in AllStores |->
            IF s = call.store
            THEN <<[arg |-> call.arg, error |-> r.error, before |-> data,
                    entry |-> entry]>>
            ELSE <<>>]
    /\ UNCHANGED <<listeners, middleware, validators, pass, firstTouched, computeds,
                   cleanedUp, registry, previous>>

MixedUpdateNotified(upd) ==
    /\ pc = "turn"
    /\ FinishNotified(mixedUpdate(Sys, middleware, validators, upd),
                      [NoCall EXCEPT !.op = "mixedUpdate", !.store = Mixed, !.arg = upd,
                                     !.before = data[Mixed]],
                      "mixed")

SourceUpdateNotified(s, upd) ==
    /\ pc = "turn"
    /\ FinishNotified(sourceUpdate(Sys, middleware, validators, s, upd),
                      [NoCall EXCEPT !.op = "sourceUpdate", !.store = s, !.arg = upd,
                                     !.before = data[s]],
                      updateEntry[s])

\* The sources have been made and mixed, and listeners have subscribed.
InitMixNotify ==
    /\ \E D \in MixInitialStates :
          data = [s \in AllStores |-> IF s = Mixed THEN initialState(D) ELSE D[s]]
    /\ \E o \in MixChains :
          /\ validators = [s \in AllStores |->
                IF s = "a" THEN o.va ELSE IF s = "b" THEN o.vb ELSE <<>>]
          /\ middleware = [s \in AllStores |-> IF s = "b" THEN o.mb ELSE <<>>]
    /\ listeners \in MixListeners
    /\ pending = <<>>
    /\ isNotifying = FALSE
    /\ notificationScheduled = FALSE
    /\ microtasks = 0
    /\ pc = "turn"
    /\ si = 0
    /\ li = 0
    /\ delivered = <<>>
    /\ turnCommit = [s \in AllStores |-> <<>>]
    /\ firstTouched = <<>>
    /\ reentered = {}
    /\ last = NoCall
    /\ NoComputeds
    /\ NoRegistry
    /\ NoPrevious
    /\ updateEntry = [s \in Stores |-> "redirect"]
    /\ cleanedUp = FALSE

NextMixNotify ==
    \/ last = NoCall /\ pending = <<>> /\ \E upd \in MixedUpdates : MixedUpdateNotified(upd)
    \/ last = NoCall /\ pending = <<>> /\ \E s \in Stores :
          \E upd \in MixUpdatesOver(MixKeysOf[s]) : SourceUpdateNotified(s, upd)
    \/ last = NoCall /\ Cleanup
    \/ Continue
    \/ StartPass
    \/ Invoke
    \/ Return
    \/ EndPass

SpecMixNotify == InitMixNotify /\ [][NextMixNotify]_vars

----------------------------------------------------------------------------
\* Claims about the notification scheduler.

\* The delivery pass has visited everything and is about to run its finally block.
PassDone == pc = "pass" /\ si > Len(pending)

ListenerSet(s) == {listeners[s][i] : i \in 1 .. Len(listeners[s])}

\* How often listener l of store s was invoked in the running pass.
Invocations(s, l) ==
    Cardinality({i \in 1 .. Len(delivered) :
                    delivered[i].store = s /\ delivered[i].listener = l})

UpdatedInTurn(s) == turnCommit[s] # <<>>

\* A listener invocation of the pass received the state the turn left in its store.
ReceivedTurnState(e) == e.state = turnCommit[e.store][1].state

\* C1: after one or more updates of a store in one synchronous turn, the pass that
\* follows invokes each listener subscribed to the store exactly once, with the
\* state committed by the last update of the turn (all updates of the store before
\* the invocation being those of the turn).
C1_Batching ==
    /\ \A i \in 1 .. Len(delivered) :
          UpdatedInTurn(delivered[i].store) /\ delivered[i].fresh
              => ReceivedTurnState(delivered[i])
    /\ \A s \in Stores : \A l \in ListenersOf[s] :
          UpdatedInTurn(s) => Invocations(s, l) <= 1
    /\ PassDone =>
          \A s \in Stores : \A l \in ListenerSet(s) :
              UpdatedInTurn(s) => Invocations(s, l) = 1

C1_Witness ==
    /\ PassDone
    /\ UpdatedInTurn("a") /\ turnCommit["a"][1].kind = "many"
    /\ Len(listeners["a"]) = 2
    /\ Len(delivered) >= 2
    /\ reentered = {}

\* C2: an update made by a listener while a pass runs is delivered to the listeners
\* of the updated store in a subsequent pass, not in the running one: no listener of
\* the store is invoked in the running pass after the update, and when the pass
\* ends the store is pending with a pass queued.
C2_ReentrantNextPass ==
    [][/\ (pc = "pass" /\ pc' = "listener") => delivered'[Len(delivered')].fresh
       /\ (pc = "pass" /\ pc' = "turn") =>
             \A s \in reentered :
                 Len(listeners[s]) > 0 => InSet(pending', s) /\ microtasks' > 0]_vars

CallOps == {"update", "transaction", "reset"}

\* C3: a call of update, transaction or reset invokes no listener: it leaves the
\* pass where it is, idle or running; idle, it queues at most one pass; in a
\* running pass it only adds its store to the pending set.
C3_NoSyncDelivery ==
    [][last' # NoCall /\ last'.op \in CallOps =>
          /\ delivered' = delivered /\ si' = si /\ li' = li
          /\ isNotifying' = isNotifying
          /\ pc' \in {"turn", "acted"}
          /\ IF InSet(pending, last'.store)
             THEN pending' = pending
             ELSE pending' = Append(pending, last'.store)
          /\ IF isNotifying
             THEN /\ microtasks' = microtasks
                  /\ notificationScheduled' = notificationScheduled
             ELSE /\ microtasks' \in {microtasks, microtasks + 1}
                  /\ notificationScheduled']_vars

C3_Witness ==
    /\ pc = "acted"
    /\ isNotifying
    /\ last.op \in CallOps
    /\ InSet(pending, last.store)
    /\ Len(delivered) >= 1

\* C4: at most one delivery pass is queued, and while the pending set is not empty
\* a pass is queued or running.
C4_OnePassQueued ==
    /\ microtasks <= 1
    /\ microtasks = 1 => notificationScheduled
    /\ pending # <<>> => microtasks = 1 \/ pc # "turn"

C4_Witness ==
    /\ pc = "turn"
    /\ microtasks = 1
    /\ Len(pending) = 2
    /\ turnCommit["a"] # <<>> /\ turnCommit["a"][1].kind = "many"

Position(q, x) == CHOOSE i \in 1 .. Len(q) : q[i] = x

\* C5: the pass visits the stores updated in the turn in the order of their first
\* update, and a listener of such a store receives the state the turn left in it,
\* never one the turn replaced.
C5_FirstTouchOrder ==
    /\ \A i, j \in 1 .. Len(delivered) :
          (i < j /\ InSet(firstTouched, delivered[i].store)
                 /\ InSet(firstTouched, delivered[j].store))
              => Position(firstTouched, delivered[i].store)
                    <= Position(firstTouched, delivered[j].store)
    /\ \A i \in 1 .. Len(delivered) :
          InSet(firstTouched, delivered[i].store) /\ delivered[i].fresh
              => ReceivedTurnState(delivered[i])

C5_Witness ==
    /\ PassDone
    /\ firstTouched = <<"b", "a">>
    /\ turnCommit["b"][1].kind = "many"
    /\ Len(delivered) >= 2
    /\ delivered[1].store = "b"
    /\ delivered[Len(delivered)].store = "a"

C7_NoopSilent ==
    \A i \in 1 .. Len(delivered) :
        ~ /\ UpdatedInTurn(delivered[i].store)
          /\ turnCommit[delivered[i].store][1].kind = "noop"
          /\ delivered[i].fresh

----------------------------------------------------------------------------
\* Claims about validation and the update pipeline (under SpecPipeline).

\* C8: an update call that raises (a validator rejects or throws, a middleware
\* throws) leaves the store's state and the scheduler as they were.
C8_FailedUpdateNoEffect ==
    [][(last'.op = "update" /\ last'.error # "") =>
          /\ data' = data
          /\ data'[last'.store] = last'.before
          /\ pending' = pending
          /\ microtasks' = microtasks
          /\ notificationScheduled' = notificationScheduled
          /\ isNotifying' = isNotifying]_vars

C8_Witness ==
    /\ last.op = "update"
    /\ last.error = "middleware failed"
    /\ Len(last.mcalls) = 2
    /\ last.mcalls[2].state # last.before
    /\ pending = <<>>

\* The message validateUpdate raises for a validator result that is not true.
ExpectedError(result) ==
    CASE result.kind = "string" -> result.msg
      [] result.kind = "throw" -> result.msg
      [] OTHER -> "Validation failed"

\* C9: validateUpdate calls the validators in registration order up to the first
\* whose result is not true, raises that one's string (or 'Validation failed'),
\* returns when all are true, and does not change the state.
C9_ValidateFailFast ==
    last.op = "validateUpdate" =>
        LET vs == validators[last.store]
            n == Len(last.vcalls)
        IN  /\ n <= Len(vs)
            /\ \A i \in 1 .. n : last.vcalls[i] = vs[i]
            /\ \A i \in 1 .. n - 1 : ValidatorResult(vs[i], last.arg).kind = "true"
            /\ IF n >= 1 /\ ValidatorResult(vs[n], last.arg).kind # "true"
               THEN last.error = ExpectedError(ValidatorResult(vs[n], last.arg))
               ELSE last.error = "" /\ n = Len(vs)
            /\ data[last.store] = last.before

C9_Witness ==
    /\ last.op = "validateUpdate"
    /\ Len(validators["a"]) = 2
    /\ Len(last.vcalls) = 1
    /\ last.error = "Validation failed"
    /\ ValidatorResult(validators["a"][2], last.arg).kind = "string"

----------------------------------------------------------------------------
\* Claims about transactions (under SpecTransaction).

\* C11: when apply raises, the store's state is rollback applied to the state it
\* had when the transaction started, rollback was called once with that state,
\* the store is pending with a pass queued, and the caller gets apply's error.
C11_RollbackOnRaise ==
    (last.op = "transaction" /\ last.applied = <<>>) =>
        /\ data[last.store] = RollbackResult(last.rollback, last.before)
        /\ last.rcalls = <<last.before>>
        /\ last.error = ApplyError
        /\ InSet(pending, last.store)
        /\ microtasks = 1 /\ notificationScheduled

C11_Witness ==
    /\ last.op = "transaction" /\ last.applied = <<>>
    /\ last.rollback = "clear"
    /\ last.before # EmptyState
    /\ data[last.store] = EmptyState
    /\ data[last.store] # last.before

\* C12: when apply returns, the store's state is the value apply returned,
\* rollback was not called and the call raises nothing.
C12_NoRollbackOnSuccess ==
    (last.op = "transaction" /\ last.applied # <<>>) =>
        /\ data[last.store] = last.applied[1]
        /\ last.rcalls = <<>>
        /\ last.error = ""

C12_Witness ==
    /\ last.op = "transaction" /\ last.applied # <<>>
    /\ last.rollback = "clear"
    /\ data[last.store] = last.applied[1]
    /\ data[last.store] # last.before

----------------------------------------------------------------------------
\* Claims about the state accessor (under SpecProxy).

\* C13: a property write through the value the state accessor returned, at any
\* depth, leaves the store's internal state unchanged.
C13_StateWriteNoEffect ==
    [][last'.op = "stateWrite" => data' = data]_vars

----------------------------------------------------------------------------
\* Claims about computed (under SpecComputed).

\* How often x occurs in the sequence q.
Count(q, x) == Cardinality({i \in 1 .. Len(q) : q[i] = x})

\* C14: a read of c.value that returns runs c's getter exactly once when no read
\* of c has returned since c was made or last notified, and does not run it when
\* one has.
C14_LazyMemo ==
    [][(last'.op = "read" /\ last'.error = "") =>
          Count(last'.runs, last'.ref) = IF memo[last'.ref] THEN 0 ELSE 1]_vars

\* The computed reached from c by following n getter reads, "" if the chain ends.
RECURSIVE TargetN(_, _, _)
TargetN(gs, c, n) ==
    IF n = 0 \/ c = "" THEN c ELSE TargetN(gs, Target(gs, c), n - 1)

InCycle(gs, c) ==
    c # "" /\ \E n \in 1 .. Cardinality(Computeds) : TargetN(gs, c, n) = c

\* C15: reading a computed that lies on a cycle of getter reads, none of whose
\* members is disposed, raises the circular-dependency error after at most one
\* getter entry per computed.
C15_CircularRaises ==
    (/\ last.op = "read"
     /\ InCycle(getters, last.ref)
     /\ \A n \in 0 .. Cardinality(Computeds) : ~disposed[TargetN(getters, last.ref, n)])
        => /\ last.error = CircularError
           /\ Len(last.runs) <= Cardinality(Computeds)
           /\ \A c \in Computeds : cache[c] = <<>> \/ ~InCycle(getters, c)

C15_Witness ==
    /\ last.op = "read" /\ last.ref = "c2"
    /\ getters = GetterConfig("next", "next", "first")
    /\ last.error = CircularError
    /\ last.runs = <<"c2", "c3", "c1">>
    /\ \A c \in Computeds : ~disposed[c]

\* C16: computedStack is empty whenever no read is in progress, whether the reads
\* so far returned or raised, and a read reports a circular dependency only when
\* its chain of getter reads runs into a cycle.
C16_StackEmptied ==
    /\ computedStack = {}
    /\ (last.op = "read" /\ last.error = CircularError) =>
          \E n \in 0 .. Cardinality(Computeds) :
              InCycle(getters, TargetN(getters, last.ref, n))

C16_Witness ==
    /\ last.op = "read" /\ last.ref = "c1"
    /\ last.error = GetterError
    /\ last.runs = <<"c1", "c2">>
    /\ computedStack = {}

\* C17: a disposed computed stays disposed, its cache is empty and its listener is
\* in no store's listener set; reading it raises the disposed-access error
\* without running a getter; dispose() on a disposed computed changes nothing.
C17_Disposed ==
    /\ [](\A c \in DOMAIN disposed :
            disposed[c] => /\ cache[c] = <<>>
                           /\ \A s \in Stores : ~InSet(listeners[s], c))
    /\ []((last.op = "read" /\ disposed[last.ref])
            => last.error = DisposedError /\ last.runs = <<>>)
    /\ [][/\ \A c \in DOMAIN disposed : disposed[c] => disposed'[c]
          /\ (last'.op = "dispose" /\ disposed[last'.ref])
                => UNCHANGED <<data, listeners, sched, computeds, registry, previous>>]_vars

C17_Witness ==
    /\ last.op = "read" /\ last.ref = "c2"
    /\ disposed["c2"]
    /\ last.error = DisposedError
    /\ data["a"]["level"] = MaxVal /\ data["b"]["level"] = MaxVal
    /\ InSet(listeners["a"], "c1")

\* What the getter of c gives for the states the stores have now: a read of
\* c.value with every cache empty.
Recomputed(c) ==
    value(c, [cache |-> [x \in Computeds |-> <<>>], stack |-> {}, runs |-> <<>>,
              reads |-> <<>>], data, 1)

\* C33: a read of .value on a computed that is not disposed returns the getter's
\* result for the states the source stores have at the time of the read, also
\* right after a source update in the same synchronous turn.
C33_ReadIsCurrent ==
    [][(last'.op = "read" /\ last'.error = "" /\ ~disposed[last'.ref]) =>
          last'.result = Recomputed(last'.ref).result]_vars

----------------------------------------------------------------------------
\* Claims about mixStores (under SpecMix).

MixOps == {"mixedUpdate", "sourceUpdate"}

NoMiddleware == \A s \in DOMAIN middleware : middleware[s] = <<>>

\* After the call in last, key x holds v in the mixed store and in every source
\* whose state has key x.
HoldsEverywhere(x, v) ==
    /\ x \in DOMAIN data[Mixed] /\ data[Mixed][x] = v
    /\ \A i \in 1 .. Len(Sources) :
          x \in DOMAIN data[Sources[i]] => data[Sources[i]][x] = v

\* C18: with no middleware and before cleanup, an update that returns, entered at
\* the mixed store or at a source, leaves every key it assigns holding the
\* assigned value in the mixed store and in every source that has the key.
C18_BothDirections ==
    (last.op \in MixOps /\ last.error = "" /\ NoMiddleware /\ ~cleanedUp) =>
        \A x \in DOMAIN last.arg : HoldsEverywhere(x, last.arg[x])

C18_Witness ==
    /\ last.op = "sourceUpdate" /\ last.store = "a" /\ last.error = ""
    /\ NoMiddleware /\ ~cleanedUp
    /\ DOMAIN last.arg = {"level"}
    /\ last.arg["level"] # last.before["level"]
    /\ data["b"]["level"] = last.arg["level"]
    /\ data[Mixed]["level"] = last.arg["level"]
    /\ Len(last.mcalls) = 2

\* The call in last' reached the mixed store's update.
ReachedMixed == last'.op = "mixedUpdate" \/ updateEntry[last'.store] = "redirect"

\* C19: in a mixed update every source with a non-empty delta has the delta
\* accepted by its validators before any store is written: a call in which some
\* source rejects its delta raises and changes no store's state.
C19_PreflightValidation ==
    [][(last'.op \in MixOps /\ ReachedMixed) =>
          LET Rejects(s) ==
                  LET delta == storeUpdate(data[s], last'.arg)
                  IN  DOMAIN delta # {} /\ validateUpdate(validators[s], delta).error # ""
          IN  (\E i \in 1 .. Len(Sources) : Rejects(Sources[i]))
                  => /\ last'.error # ""
                     /\ data' = data
                     /\ pending' = pending /\ microtasks' = microtasks]_vars

C19_Witness ==
    /\ last.op = "mixedUpdate"
    /\ last.error = "level must be positive"
    /\ validators["a"] = <<>>
    /\ "score" \in DOMAIN last.arg /\ last.arg["score"] # data["a"]["score"]
    /\ "level" \in DOMAIN last.arg /\ data["b"]["level"] # 0

\* C20: after cleanup() an update on the mixed store leaves every source store's
\* state unchanged.
C20_NoPropagationAfterCleanup ==
    [][(last'.op = "mixedUpdate" /\ cleanedUp) =>
          \A i \in 1 .. Len(Sources) : data'[Sources[i]] = data[Sources[i]]]_vars

\* C21: after cleanup() an update on a source store changes only that source: the
\* mixed store's state and the other sources' states stay as they are, and the
\* mixed store is not put among the stores whose listeners are to be notified.
C21_SourceAloneAfterCleanup ==
    [][(last'.op = "sourceUpdate" /\ cleanedUp) =>
          /\ \A s \in AllStores \ {last'.store} : data'[s] = data[s]
          /\ \A s \in AllStores \ {last'.store} :
                InSet(pending', s) => InSet(pending, s)]_vars

C21_Witness ==
    /\ cleanedUp
    /\ last.op = "sourceUpdate" /\ last.store = "a" /\ last.error = ""
    /\ "level" \in DOMAIN last.arg /\ last.arg["level"] # last.before["level"]
    /\ data["a"]["level"] = last.arg["level"]
    /\ data[Mixed]["level"] # data["a"]["level"]
    /\ InSet(pending, "a") /\ ~InSet(pending, Mixed)

\* The update call of the turn that returned and went through the mixed store's
\* update, if there is one: entered at the mixed store, or at a source whose
\* update property held the mixer's function.
MixedCallsOfTurn ==
    {turnCommit[e][1] : e \in {x \in AllStores :
        /\ turnCommit[x] # <<>>
        /\ turnCommit[x][1].error = ""
        /\ turnCommit[x][1].entry \in {"mixed", "redirect"}}}

\* C22: when the delivery pass that follows one update call is over (the call
\* returned and went through the mixed store), every listener of the mixed store
\* and of every source with a non-empty delta has been invoked exactly once, and
\* no listener of a source with an empty delta has been invoked.
C22_OncePerAffectedStore ==
    PassDone =>
        \A c \in MixedCallsOfTurn : \A s \in AllStores : \A l \in ListenerSet(s) :
            Invocations(s, l) =
                IF s = Mixed \/ DOMAIN storeUpdate(c.before[s], c.arg) # {} THEN 1 ELSE 0

C22_Witness ==
    /\ PassDone
    /\ turnCommit["a"] # <<>>
    /\ turnCommit["a"][1].error = "" /\ turnCommit["a"][1].entry = "redirect"
    /\ turnCommit["a"][1].arg = [score |-> MaxVal]
    /\ turnCommit["a"][1].before["a"]["score"] = 0
    /\ listeners[Mixed] = <<"l1", "l2">> /\ listeners["a"] = <<"l1">>
    /\ listeners["b"] = <<"l1">>
    /\ Invocations(Mixed, "l1") = 1 /\ Invocations(Mixed, "l2") = 1
    /\ Invocations("a", "l1") = 1 /\ Invocations("b", "l1") = 0

\* The validateUpdate calls of the call in last' that ran a validator of store s.
ValidatorRuns(s) ==
    {j \in 1 .. Len(last'.vcalls) :
        last'.vcalls[j].store = s /\ last'.vcalls[j].validators # <<>>}

\* The call in last' left source s alone: its state is kept, it is not put among
\* the stores to notify, and the fan-out did not call its update.
LeftAlone(s) ==
    /\ data'[s] = data[s]
    /\ InSet(pending', s) => InSet(pending, s)
    /\ \A j \in 1 .. Len(last'.mcalls) : last'.mcalls[j].store # s

\* C23 as stated: in a mixed update, a source with an empty delta has none of its
\* validators invoked, keeps its state, is not notified and does not have its
\* update called.
C23_EmptyDeltaUntouched ==
    [][(last'.op \in MixOps /\ ReachedMixed) =>
          \A i \in 1 .. Len(Sources) :
              DOMAIN storeUpdate(data[Sources[i]], last'.arg) = {} =>
                  ValidatorRuns(Sources[i]) = {} /\ LeftAlone(Sources[i])]_vars

\* C23 amended: in a mixed update, a source with an empty delta keeps its state,
\* is not notified and does not have its update called by the fan-out; its
\* validators are invoked only if the call was entered at that source, and then
\* once, on the update the call was given, before the mixed store is reached.
C23_EmptyDeltaValidatedAtEntryOnly ==
    [][(last'.op \in MixOps /\ ReachedMixed) =>
          \A i \in 1 .. Len(Sources) :
              DOMAIN storeUpdate(data[Sources[i]], last'.arg) = {} =>
                  /\ ValidatorRuns(Sources[i]) =
                        IF last'.store = Sources[i] /\ validators[Sources[i]] # <<>>
                        THEN {1} ELSE {}
                  /\ LeftAlone(Sources[i])]_vars

C23_Witness ==
    /\ last.op = "mixedUpdate" /\ last.error = ""
    /\ last.arg = [score |-> MaxVal] /\ last.before["score"] = 0
    /\ validators["b"] # <<>>
    /\ \A j \in 1 .. Len(last.vcalls) : last.vcalls[j].store # "b"
    /\ \A j \in 1 .. Len(last.mcalls) : last.mcalls[j].store # "b"
    /\ data["a"]["score"] = MaxVal
    /\ InSet(pending, "a") /\ ~InSet(pending, "b")

\* C24: with no middleware installed, an update entered at the mixed store or at
\* a source changes in every source only keys the update mentions: a key the
\* update does not mention is in the source's state after the call exactly if it
\* was before, with the value it had.
C24_OnlyMentionedKeys ==
    [][(last'.op \in MixOps /\ NoMiddleware) =>
          \A i \in 1 .. Len(Sources) :
              LET s == Sources[i]
              IN  \A k \in (DOMAIN data[s] \cup DOMAIN data'[s]) \ DOMAIN last'.arg :
                      /\ k \in DOMAIN data[s] /\ k \in DOMAIN data'[s]
                      /\ data'[s][k] = data[s][k]]_vars

C24_Witness ==
    /\ last.op = "mixedUpdate" /\ last.error = "" /\ NoMiddleware
    /\ last.arg = [level |-> 0]
    /\ last.before = [score |-> MaxVal, level |-> MaxVal, bonus |-> MaxVal]
    /\ data["a"] = [score |-> MaxVal, level |-> 0]
    /\ data["b"] = [level |-> 0, bonus |-> MaxVal]

\* C25: an update call entered at the mixed store or at a source ends without
\* exhausting the call stack; MixedStore.update runs at most once in it, and
\* exactly once when the call returns and goes through the mixed store; every
\* store.update the fan-out calls is the raw wrapper, never the redirect.
C25_NoRecursion ==
    [][(last'.op \in MixOps) =>
          /\ last'.error # StackError
          /\ Len(last'.runs) <= 1
          /\ (ReachedMixed /\ last'.error = "") => Len(last'.runs) = 1
          /\ \A j \in 1 .. Len(last'.mcalls) : last'.mcalls[j].entry = "raw"]_vars

C25_Witness ==
    /\ last.op = "sourceUpdate" /\ last.store = "a" /\ last.error = ""
    /\ last.arg = [level |-> MaxVal] /\ last.before["level"] = 0
    /\ last.runs = <<[level |-> MaxVal]>>
    /\ Len(last.mcalls) = 2
    /\ last.mcalls[1].store = "a" /\ last.mcalls[1].entry = "raw"
    /\ last.mcalls[2].store = "b" /\ last.mcalls[2].entry = "raw"
    /\ updateEntry["a"] = "redirect" /\ updateEntry["b"] = "redirect"

\* The place in the stores list of the last store whose state has key k.
LastHolder(k) ==
    CHOOSE i \in 1 .. Len(Sources) :
        /\ k \in DOMAIN data[Sources[i]]
        /\ \A j \in 1 .. Len(Sources) : k \in DOMAIN data[Sources[j]] => j <= i

\* C26: right after mixStores(stores) the mixed store's state has exactly the
\* keys that some source has, each with the value it has in the last store of the
\* list that has it.
C26_InitialStateLastWins ==
    last.op = "mixStores" =>
        /\ DOMAIN data[Mixed] =
              UNION {DOMAIN data[Sources[i]] : i \in 1 .. Len(Sources)}
        /\ \A k \in DOMAIN data[Mixed] :
              data[Mixed][k] = data[Sources[LastHolder(k)]][k]

C26_Witness ==
    /\ last.op = "mixStores"
    /\ data["a"] = [score |-> MaxVal, level |-> 0]
    /\ data["b"] = [level |-> MaxVal]
    /\ data[Mixed] = [score |-> MaxVal, level |-> MaxVal]

\* The sources hold the same value for every key two of them have.
SourcesAgree ==
    \A i, j \in 1 .. Len(Sources) :
        \A k \in DOMAIN data[Sources[i]] \cap DOMAIN data[Sources[j]] :
            data[Sources[i]][k] = data[Sources[j]][k]

\* Every key of every source is in the mixed store's state with the same value.
Mirrored ==
    \A i \in 1 .. Len(Sources) : \A k \in DOMAIN data[Sources[i]] :
        k \in DOMAIN data[Mixed] /\ data[Mixed][k] = data[Sources[i]][k]

\* C30: if the sources agree on their shared keys when they are mixed and no
\* middleware is installed, then after every sequence of update calls, accepted
\* or rejected, entered at the mixed store or at a source, every key of every
\* source has in the mixed store the value it has in the source.
C30_MixedMirrorsSources ==
    (SourcesAgree /\ NoMiddleware) => [](~cleanedUp => Mirrored)

C30_Witness ==
    /\ NoMiddleware /\ ~cleanedUp
    /\ validators["b"] = <<"levelValidator">>
    /\ last.op = "sourceUpdate" /\ last.store = "b"
    /\ last.error = "level must be positive"
    /\ data["a"] = [score |-> MaxVal, level |-> 0]
    /\ data["b"] = [level |-> 0, bonus |-> MaxVal]
    /\ data[Mixed] = [score |-> MaxVal, level |-> 0, bonus |-> MaxVal]

\* C31: between mix time and cleanup(), after every update call, returned or
\* raised, the update property of each source holds the mixer's redirect.
C31_RedirectStaysInstalled ==
    ~cleanedUp => \A i \in 1 .. Len(Sources) : updateEntry[Sources[i]] = "redirect"

\* C32: an update entered at the mixed store or at a source that raises, for
\* whatever reason, leaves the mixed store and every source with the states
\* they had before the call.
C32_RaiseCommitsNothing ==
    [][(last'.op \in MixOps /\ last'.error # "") => data' = data]_vars

\* C34 (under SpecMixCommit): transaction, simpleTransaction and reset keep the
\* mixed store and the sources in sync: called on a source or on the mixed store
\* when every key of every source has the same value in the mixed store, they
\* leave it so.
C34_CommitsKeepSync ==
    [][(last'.op \in {"transaction", "simpleTransaction", "reset"}
            /\ ~cleanedUp /\ Mirrored) => Mirrored']_vars

\* C35 (under SpecMixAnyKey): with no middleware, an accepted source.update(cb)
\* under mixing leaves the source with the state the same call gives an unmixed
\* store, the update merged into the previous state, keys the state did not have
\* included.
C35_SourceUpdateAsUnmixed ==
    [][(last'.op = "sourceUpdate" /\ last'.error = "" /\ NoMiddleware /\ ~cleanedUp) =>
          data'[last'.store] =
              update(data[last'.store], <<>>, validators[last'.store], last'.arg).state]_vars

----------------------------------------------------------------------------
\* Claims about the chains of middleware and validators (under SpecRegistry).

\* The functions registered on store s in the chain named, from the i-th call
\* on, whose remover has not been called, in the order of the calls.
RECURSIVE LiveFrom(_, _, _)
LiveFrom(s, chain, i) ==
    IF i > Len(removers) THEN <<>>
    ELSE IF removers[i].store = s /\ removers[i].chain = chain /\ removers[i].calls = 0
         THEN <<removers[i].fn>> \o LiveFrom(s, chain, i + 1)
         ELSE LiveFrom(s, chain, i + 1)

\* C27: whatever functions are registered, twice or more the same one included,
\* and whichever removers are called, once or again, each chain holds the
\* registrations whose remover has not been called: the first call of a remover
\* takes its registration out and a later call changes nothing.
C27_RemoverTakesOwnRegistration ==
    \A s \in Stores :
        /\ middleware[s] = LiveFrom(s, "middleware", 1)
        /\ validators[s] = LiveFrom(s, "validators", 1)

----------------------------------------------------------------------------
\* Claims about the build that keeps the previous state (under SpecPrev).

\* C28: a listener is invoked with the latest committed state of its store and,
\* as second argument, the state the store had just before the first update of
\* the batch being delivered.
C28_PrevIsStateBeforeBatch ==
    pc = "listener" =>
        LET d == delivered[Len(delivered)]
        IN  /\ d.state = data[d.store]
            /\ d.prev = turnCommit[d.store][1].before

----------------------------------------------------------------------------
\* Claims about delivery after commits made by listeners (under Spec).

\* C29: every committed state is delivered in the end, a commit made by a
\* listener during a pass included.  When a pass ends and leaves no pass queued,
\* nothing more is delivered unless a store is called again, so by then every
\* listener of a store that a listener committed to during the pass has been
\* invoked with the state the store holds.
C29_ListenerCommitDelivered ==
    [][(PassDone /\ pc' = "turn" /\ microtasks' = 0) =>
          \A s \in reentered : \A l \in ListenerSet(s) :
              \E i \in 1 .. Len(delivered) :
                  /\ delivered[i].store = s
                  /\ delivered[i].listener = l
                  /\ delivered[i].state = data[s]]_vars

----------------------------------------------------------------------------
\* Claims about listeners that raise (under SpecRaise).

\* Every listener of store s has been invoked in the running pass.
AllInvoked(s) == \A l \in ListenerSet(s) : Invocations(s, l) >= 1

\* C36: when a listener raises during a pass, the listeners of the other stores
\* pending in that pass are still invoked, in that pass or in a later one: each
\* such store has had its listeners invoked already, or is still pending with a
\* pass queued when the pass has ended.
C36_OtherStoresStillDelivered ==
    [][(pc = "listener" /\ last'.op = "raise") =>
          \A i \in 1 .. Len(pending) :
              pending[i] # last'.store =>
                  \/ AllInvoked(pending[i])
                  \/ InSet(pending', pending[i]) /\ microtasks' > 0]_vars

\* A delivery pass ends in this step, by the last listener returning or by a
\* listener raising.
PassEnds == pc \in {"pass", "listener"} /\ pc' = "turn"

\* C37: when a delivery pass ends, whether every listener returned or one
\* raised, the delivering flag and the queued flag are false and the pending set
\* is empty, and an update made when no pass is queued queues one.
C37_FlagsClearedOnEveryExit ==
    [][/\ PassEnds => ~isNotifying' /\ ~notificationScheduled' /\ pending' = <<>>
       /\ (pc = "turn" /\ microtasks = 0 /\ last'.op = "update" /\ last'.error = "")
              => microtasks' = 1 /\ InSet(pending', last'.store)]_vars

C37_Witness ==
    /\ last.op = "raise" /\ last.store = "a"
    /\ pc = "turn"
    /\ ~isNotifying /\ ~notificationScheduled /\ pending = <<>> /\ microtasks = 0
    /\ Len(listeners["a"]) = 2 /\ Len(listeners["b"]) = 1
    /\ data["b"]["level"] = MaxVal

----------------------------------------------------------------------------
\* Claims about reset and the transactions against the chains of the store.

\* C38: reset(d) makes the store's state exactly d (keys absent from d are gone,
\* reset() makes the state empty), invokes no validator and no middleware, and
\* schedules a notification: the store is pending and one pass is queued.
C38_ResetReplacesWholesale ==
    [][(pc = "turn" /\ pc' = "turn" /\ last'.op = "reset") =>
          /\ data'[last'.store] = last'.arg
          /\ last'.error = ""
          /\ last'.vcalls = <<>> /\ last'.mcalls = <<>>
          /\ InSet(pending', last'.store)
          /\ notificationScheduled' /\ microtasks' = 1]_vars

\* reset() on a store whose validators reject the empty update and whose
\* middleware would have changed it.
C38_Witness ==
    /\ last.op = "reset" /\ last.store = "a" /\ last.arg = EmptyState
    /\ last.before # EmptyState
    /\ validateUpdate(validators["a"], EmptyState).error # ""
    /\ middleware["a"] # <<>>
    /\ data["a"] = EmptyState
    /\ InSet(pending, "a") /\ microtasks = 1

\* What a transaction or simpleTransaction recorded in call commits: the result
\* of apply, or the result of rollback when apply raised.
Committed(call) ==
    IF call.op = "simpleTransaction" THEN applyUpdate(call.before, call.arg)
    ELSE IF call.applied # <<>> THEN call.applied[1]
    ELSE RollbackResult(call.rollback, call.before)

\* C39: transaction and simpleTransaction commit the result of apply without
\* invoking any validator or middleware of the store, whatever the chains would
\* have said of that result as an update.
C39_TransactionsBypassChains ==
    [][(pc = "turn" /\ pc' = "turn"
           /\ last'.op \in {"transaction", "simpleTransaction"}) =>
          /\ last'.vcalls = <<>> /\ last'.mcalls = <<>>
          /\ data'[last'.store] = Committed(last')
          /\ (last'.op = "simpleTransaction" \/ last'.applied # <<>>)
                 => last'.error = ""]_vars

\* A simpleTransaction committed level 0 on a store whose validators reject
\* that as an update.
C39_Witness ==
    /\ last.op = "simpleTransaction" /\ last.store = "a"
    /\ last.arg = [level |-> 0]
    /\ "level" \in DOMAIN last.before /\ last.before["level"] = MaxVal
    /\ update(last.before, middleware["a"], validators["a"], last.arg).error # ""
    /\ data["a"]["level"] = 0
    /\ last.error = ""

----------------------------------------------------------------------------
\* Claim about the cache of a computed whose getter returns undefined (under
\* SpecComputed).

\* C40: when a read of c has returned since c was made or last notified and the
\* getter returned undefined on it (the cache holds undefined), the next read of
\* c does not run c's getter.
C40_UndefinedIsMemoized ==
    [][(/\ last'.op = "read" /\ last'.error = ""
        /\ memo[last'.ref]
        /\ cache[last'.ref] = <<>>) =>
          Count(last'.runs, last'.ref) = 0]_vars

====
